---- MODULE Spec2Model ----
(***************************************************************************)
(* Annotation pipeline of GalaxeaLeRobotToolkit (src/label):               *)
(*   data_updater.py   DatasetUpdater  (backup, the two stores, time)      *)
(*   vlm_annotator.py  VLMAnnotator    (retry loop, reply parsing)         *)
(*   auto_annotate.py  AutoAnnotator   (the run: backup, per-video steps)  *)
(*                                                                         *)
(* The specifications share the variables; each one moves its own group    *)
(* and leaves the others at their idle values:                             *)
(*   SpecTime     the relative-to-absolute conversion as a pure function   *)
(*   SpecBackup   backup calls on one DatasetUpdater, time passing and     *)
(*                the stores being rewritten in between                    *)
(*   SpecUpdater  update_episode_tasks and update_meta_annotations calls   *)
(*   SpecFull     update_episode_full calls                                *)
(*   SpecSeq      any sequence of the three update calls and batch_update  *)
(*   SpecVlm      one annotate_video_frames call                           *)
(*   SpecOrch     one AutoAnnotator run (batch or single-item)             *)
(*   SpecParse    _parse_vlm_response as a pure function of the reply text *)
(*   SpecGrid     create_frame_grid as a pure function of frames and size  *)
(*   SpecExtract  extract_frames as a pure function of the frame rates     *)
(***************************************************************************)
EXTENDS Integers, Sequences, FiniteSets, TLC

VARIABLES
    tcBase,      \* SpecTime: baseline [second, nano]
    tcRel,       \* SpecTime: relative offset, see RelTimes
    tcOut,       \* SpecTime: converted [second, nano]
    tcDone,      \* SpecTime: the conversion has been applied
    episodesFile,   \* episodes.jsonl: [exists, readonly, lines]
    metaFile,       \* training_data_set_meta.json: [exists, readonly, doc]
    backups,        \* backup files: set of [store, stamp, content]
    backup_done,    \* DatasetUpdater._backup_done
    clock,          \* wall clock in seconds (the backup suffix)
    copies,         \* history: shutil.copy2 calls made, per store
    backupCalls,    \* history: calls of backup_original_files
    nCalls,         \* history: update calls made
    last,           \* history: the last update call: its inputs, its outcome
                    \* and the two stores as they were before it
    max_retries,    \* VLMAnnotator.max_retries
    vPc,            \* annotate_video_frames: "idle", "attempt", "sleep", "done"
    vAttempt,       \* the retry loop's attempt
    vEvents,        \* history: "request" and "sleep", in the order made
    vWaited,        \* history: seconds slept in time.sleep
    vOutcomes,      \* history: what each request met
    vResult,        \* the value returned, see PyNone, JObject, JArray
    vRaised,        \* an exception left annotate_video_frames
    vCall,          \* history: the call's inputs [frames, use_grid]
    video_dir,      \* the files glob("episode_*.mp4") finds, a set
    max_episodes,   \* AutoAnnotator.max_episodes (--max_episodes)
    start_index,    \* --start_index
    single,         \* --single
    video_files,    \* the videos the run works through, in order
    loop_i,         \* videos the run is done with
    oPc,            \* the run: "start", "backup", "extract", "infer", "save",
                    \* "update", "summary", "done", "crashed"
    oEpisodeInfo,   \* annotate_single_video's episode_info
    oVlmResult,     \* annotate_single_video's vlm_result
    results,        \* episode indices of the items that gave a result
    failed_episodes,   \* failed_episodes of annotate_all_videos
    oTrace,         \* history: the run's steps, in the order made
    origEpisodes,   \* history: episodes.jsonl as the run found it
    origMeta,       \* history: the meta file as the run found it
    writes,         \* history: save_episodes and save_meta calls completed
    unsafeWrite,    \* history: a store was written before any backup
    pText,          \* _parse_vlm_response: response_text, a sequence of pieces
    pResult,        \* _parse_vlm_response: the value returned
    pDone,          \* _parse_vlm_response has returned
    gFrames,        \* create_frame_grid: frames, by their timestamps
    gSize,          \* create_frame_grid: grid_size
    gTimestamps,    \* create_frame_grid: the timestamps returned
    gCells,        \* create_frame_grid: the cells of the image, row-major
    gRaised,        \* create_frame_grid raised
    gDone,          \* create_frame_grid has returned or raised
    efCall,         \* extract_frames: [original_fps, fps, decoded]
    efResult        \* extract_frames: [done, raised, frame_interval, frames]

timeVars == <<tcBase, tcRel, tcOut, tcDone>>
updaterVars == <<episodesFile, metaFile, backups, backup_done, clock, copies,
                 backupCalls, nCalls, last>>
vlmVars == <<max_retries, vPc, vAttempt, vEvents, vWaited, vOutcomes, vResult,
             vRaised, vCall>>

orchVars == <<video_dir, max_episodes, start_index, single, video_files, loop_i, oPc,
              oEpisodeInfo, oVlmResult, results, failed_episodes, oTrace,
              origEpisodes, origMeta, writes, unsafeWrite>>

parseVars == <<pText, pResult, pDone>>
gridVars == <<gFrames, gSize, gTimestamps, gCells, gRaised, gDone>>
extractVars == <<efCall, efResult>>

\* What the actions of one group leave alone; a run moves the updater's
\* variables as well as its own.
otherThanTime == <<updaterVars, vlmVars, orchVars, parseVars, gridVars, extractVars>>
otherThanUpdater == <<timeVars, vlmVars, orchVars, parseVars, gridVars, extractVars>>
otherThanVlm == <<timeVars, updaterVars, orchVars, parseVars, gridVars, extractVars>>
outsideRun == <<timeVars, vlmVars, parseVars, gridVars, extractVars>>
otherThanParse == <<timeVars, updaterVars, vlmVars, orchVars, gridVars, extractVars>>
otherThanGrid == <<timeVars, updaterVars, vlmVars, orchVars, parseVars, extractVars>>
otherThanExtract == <<timeVars, updaterVars, vlmVars, orchVars, parseVars, gridVars>>

(***************************************************************************)
(* Python values.                                                          *)
(***************************************************************************)

\* None, as returned by dict.get(key) on a missing key.
NoneVal == "<None>"

\* dict.get(key, default)
Get(d, k, default) == IF k \in DOMAIN d THEN d[k] ELSE default

\* Truthiness of a text-or-None value: None and "" are falsy.
Truthy(x) == x # NoneVal /\ x # ""

(***************************************************************************)
(* Relative-to-absolute time (data_updater.py 257-274).                    *)
(*                                                                         *)
(* Python integers are unbounded; TLC's are 32 bit.  int(t * 1e9) is kept  *)
(* as two limbs, [s, n] standing for s * NS + n, with s and n of the same  *)
(* sign and |n| < NS, the way int() truncates toward zero.  A total of     *)
(* nanoseconds is kept as [units, low] standing for units * NS + low; its  *)
(* floor quotient by NS is units + low // NS and its remainder low % NS.   *)
(* \div and % floor, as Python's // and % do.                              *)
(***************************************************************************)

NS == 1000000000

\* The relative time taken as the total: the baseline's nanoseconds dropped.
TotalNs_without_baseline(base_nanosecond, rel) ==
    [units |-> rel.s, low |-> rel.n]

\* start_total_ns = base_nanosecond + int(start_time * 1e9)
TotalNs(base_nanosecond, rel) ==
    [units |-> rel.s, low |-> base_nanosecond + rel.n]

\* Quotient truncated toward zero (C's /) instead of floored.
DivNS_truncating(total) ==
    total.units + (IF total.low < 0 THEN -((-total.low) \div NS) ELSE total.low \div NS)

\* total_ns // 1000000000
DivNS(total) == total.units + (total.low \div NS)

\* Remainder with the sign of the dividend (C's %) instead of floored.
ModNS_truncating(total) ==
    IF total.low < 0 THEN -((-total.low) % NS) ELSE total.low % NS

\* total_ns % 1000000000
ModNS(total) == total.low % NS

\* (start_second, start_nanosecond) of lines 258-265
ToAbsolute(base_second, base_nanosecond, rel) ==
    LET total == TotalNs(base_nanosecond, rel)
    IN  [second |-> base_second + DivNS(total), nano |-> ModNS(total)]

\* Relative offsets in whole nanoseconds: 0, 0.2 s, 5.5 s, 12.3 s, 1.1 s,
\* the last nanosecond before a second, and negative offsets.
RelTimes ==
    { [s |-> 0, n |-> 0], [s |-> 0, n |-> 200000000], [s |-> 5, n |-> 500000000],
      [s |-> 12, n |-> 300000000], [s |-> 1, n |-> 100000000],
      [s |-> 0, n |-> 999999999], [s |-> 0, n |-> 1],
      [s |-> 0, n |-> -1], [s |-> 0, n |-> -500000000],
      [s |-> -1, n |-> -100000000], [s |-> 0, n |-> -999999999],
      [s |-> -3, n |-> 0] }

BaseSeconds == {0, 100, 1770293857}
BaseNanos == {0, 1, 260645179, 900000000, 999999999}

Convert ==
    /\ ~tcDone
    /\ tcOut' = ToAbsolute(tcBase.second, tcBase.nano, tcRel)
    /\ tcDone' = TRUE
    /\ UNCHANGED <<tcBase, tcRel>>
    /\ UNCHANGED otherThanTime

(***************************************************************************)
(* DatasetUpdater (data_updater.py): the two stores.                       *)
(*                                                                         *)
(* A file is kept by its parsed content: a line of episodes.jsonl is the   *)
(* dict json.loads gives for it, or MalformedLine for a line that is no    *)
(* JSON; the meta file is the dict json.load gives.  A dict is a function  *)
(* from its keys, so a missing key is a key outside DOMAIN.  readonly is   *)
(* the file's permission: open(file, 'w') raises on a read-only file.      *)
(***************************************************************************)

MalformedLine == [malformed |-> TRUE]

EmptyDict == <<>>

\* d[k] = v on a record rebuilt from the fields this pipeline knows.
SetKey_known_fields_only(d, k, v) ==
    [x \in (DOMAIN d \cap {"episode_index", "tasks", "length", "name",
                           "annotations"}) \cup {k} |->
        IF x = k THEN v ELSE d[x]]

\* d[k] = v
SetKey(d, k, v) == [x \in DOMAIN d \cup {k} |-> IF x = k THEN v ELSE d[x]]

SetMin(S) == CHOOSE x \in S : \A y \in S : x <= y

\* A text holding a lone surrogate, as json.loads gives for the escape
\* \ud83d standing alone: json.dumps(ensure_ascii=False) returns it as it is
\* and the utf-8 file refuses it (UnicodeEncodeError in f.write).
LoneSurrogate == "zhuaqu <U+D83D>"

Encodes(text) == text # LoneSurrogate

\* What is left of the meta file when json.dump stopped in the middle: the
\* head of a JSON text, which json.load does not parse.
TruncatedDoc == [truncated |-> TRUE]

\* save_episodes (lines 96-100): open(file, 'w') empties the file, then one
\* f.write per record in list order; the first record that does not encode
\* raises, and the records before it are what the file holds.
save_episodes(file, episodes) ==
    LET bad == { i \in 1..Len(episodes) :
                   \E j \in 1..Len(Get(episodes[i], "tasks", << >>)) :
                       ~Encodes(episodes[i].tasks[j]) }
    IN  IF file.readonly THEN [raised |-> TRUE, file |-> file]
        ELSE IF bad = {}
        THEN [raised |-> FALSE, file |-> [file EXCEPT !.exists = TRUE, !.lines = episodes]]
        ELSE [raised |-> TRUE,
              file |-> [file EXCEPT !.exists = TRUE,
                                    !.lines = SubSeq(episodes, 1, SetMin(bad) - 1)]]

\* save_meta (lines 119-122): open(file, 'w') empties the file, then
\* json.dump writes the document piece by piece; a text that does not
\* encode raises and leaves the head of the document in the file.
save_meta(file, meta) ==
    LET items == Get(meta, "rawDataList", << >>)
        bad == \E i \in 1..Len(items) :
                   \E j \in 1..Len(Get(items[i], "annotations", << >>)) :
                       ~Encodes(items[i].annotations[j].text)
    IN  IF file.readonly THEN [raised |-> TRUE, file |-> file]
        ELSE IF bad
        THEN [raised |-> TRUE, file |-> [file EXCEPT !.exists = TRUE, !.doc = TruncatedDoc]]
        ELSE [raised |-> FALSE, file |-> [file EXCEPT !.exists = TRUE, !.doc = meta]]

\* json.load raising in load_meta (line 52).
LoadMetaRaises(file) == file.exists /\ file.doc = TruncatedDoc

\* load_episodes: the parsed lines, or raised when json.loads fails on one.
load_episodes(file) ==
    IF ~file.exists THEN [raised |-> FALSE, episodes |-> <<>>]
    ELSE IF \E i \in 1..Len(file.lines) : file.lines[i] = MalformedLine
    THEN [raised |-> TRUE, episodes |-> <<>>]
    ELSE [raised |-> FALSE, episodes |-> file.lines]

\* load_meta keeping rawDataList alone of the document.
load_meta_rawDataList_only(file) ==
    IF file.exists
    THEN [k \in DOMAIN file.doc \cap {"rawDataList"} |-> file.doc[k]]
    ELSE EmptyDict

\* load_meta
load_meta(file) == IF file.exists THEN file.doc ELSE EmptyDict

\* The loop "for episode in episodes: if episode.get('episode_index') ==
\* episode_index: ... break": the position of the first match, 0 for none.
FindEpisode(episodes, episode_index) ==
    LET hits == { i \in 1..Len(episodes) :
                    /\ "episode_index" \in DOMAIN episodes[i]
                    /\ episodes[i].episode_index = episode_index }
    IN  IF hits = {} THEN 0 ELSE SetMin(hits)

\* An action with only description_en keeps that text as its entry.
TaskEntry_keeps_english_alone(action) ==
    LET desc_cn == Get(action, "description", "")
        desc_en == Get(action, "description_en", "")
    IN  IF Truthy(desc_cn) /\ Truthy(desc_en) THEN << desc_cn \o "@" \o desc_en >>
        ELSE IF Truthy(desc_cn) THEN << desc_cn >>
        ELSE IF Truthy(desc_en) THEN << desc_en >>
        ELSE << >>

\* The entries one action adds to tasks (lines 161-166).
TaskEntry(action) ==
    LET desc_cn == Get(action, "description", "")
        desc_en == Get(action, "description_en", "")
    IN  IF Truthy(desc_cn) /\ Truthy(desc_en) THEN << desc_cn \o "@" \o desc_en >>
        ELSE IF Truthy(desc_cn) THEN << desc_cn >>
        ELSE << >>

RECURSIVE BuildTasks(_)
\* The tasks list built from the actions, in action order (lines 157-166).
BuildTasks(actions) ==
    IF actions = << >> THEN << >>
    ELSE TaskEntry(Head(actions)) \o BuildTasks(Tail(actions))

\* update_episode_tasks writing a new record for an index it did not find.
update_episode_tasks_adds_missing(file, episode_index, vlm_result) ==
    LET loaded == load_episodes(file)
        pos == FindEpisode(loaded.episodes, episode_index)
        tasks == BuildTasks(Get(vlm_result, "actions", << >>))
    IN  IF loaded.raised THEN [ret |-> "raised", file |-> file]
        ELSE IF pos = 0 /\ file.readonly THEN [ret |-> "false", file |-> file]
        ELSE IF pos = 0
        THEN [ret |-> "false",
              file |-> [file EXCEPT !.exists = TRUE,
                                    !.lines = Append(@, [episode_index |-> episode_index,
                                                         tasks |-> tasks])]]
        ELSE LET saved == save_episodes(file, [loaded.episodes EXCEPT
                                                  ![pos] = SetKey(@, "tasks", tasks)])
             IN  [ret |-> IF saved.raised THEN "raised" ELSE "true",
                  file |-> saved.file]

\* update_episode_tasks: [ret, file], ret one of "true", "false", "raised".
update_episode_tasks(file, episode_index, vlm_result) ==
    LET loaded == load_episodes(file)
        pos == FindEpisode(loaded.episodes, episode_index)
        tasks == BuildTasks(Get(vlm_result, "actions", << >>))
    IN  IF loaded.raised THEN [ret |-> "raised", file |-> file]
        ELSE IF pos = 0 THEN [ret |-> "false", file |-> file]
        ELSE LET saved == save_episodes(file, [loaded.episodes EXCEPT
                                                  ![pos] = SetKey(@, "tasks", tasks)])
             IN  [ret |-> IF saved.raised THEN "raised" ELSE "true",
                  file |-> saved.file]

\* A relative time the model can convert: a number, not NaN.
IsNumber(t) == "s" \in DOMAIN t

\* Lines 250-274 for one action.
BuildAnnotation(action, base_second, base_nanosecond, action_quality_label) ==
    LET start == ToAbsolute(base_second, base_nanosecond,
                            Get(action, "start_time", [s |-> 0, n |-> 0]))
        end == ToAbsolute(base_second, base_nanosecond,
                          Get(action, "end_time", [s |-> 0, n |-> 0]))
    IN  [text |-> Get(action, "description", ""),
         actionQualityLabel |-> action_quality_label,
         startSecond |-> start.second, startNanoSecond |-> start.nano,
         endSecond |-> end.second, endNanoSecond |-> end.nano]

\* int(start_time * 1e9) or int(end_time * 1e9) raises (ValueError on NaN).
ConversionRaises(actions) ==
    \E i \in 1..Len(actions) :
        \/ ~IsNumber(Get(actions[i], "start_time", [s |-> 0, n |-> 0]))
        \/ ~IsNumber(Get(actions[i], "end_time", [s |-> 0, n |-> 0]))

\* Lines 202-225: which item of rawDataList is the target.
\* [raised, how, pos]: how is the match that was logged, pos the item's
\* position from 1 (0: none).  rawDataList[episode_index] is Python
\* indexing: a negative index counts from the end, and raises IndexError
\* below -len.
MatchRawData(rawDataList, efile, episode_index, raw_file_name) ==
    LET n == Len(rawDataList)
        loaded == load_episodes(efile)
        epos == FindEpisode(loaded.episodes, episode_index)
        name == IF raw_file_name # NoneVal THEN raw_file_name
                ELSE IF epos = 0 THEN NoneVal
                ELSE Get(loaded.episodes[epos], "raw_file_name", NoneVal)
        hits == { i \in 1..n : Get(rawDataList[i], "name", NoneVal) = name }
    IN  IF episode_index < n
        THEN IF episode_index >= 0
             THEN [raised |-> FALSE, how |-> "index", pos |-> episode_index + 1]
             ELSE IF episode_index >= -n
             THEN [raised |-> FALSE, how |-> "index", pos |-> n + episode_index + 1]
             ELSE [raised |-> TRUE, how |-> "none", pos |-> 0]
        ELSE IF raw_file_name = NoneVal /\ loaded.raised
             THEN [raised |-> TRUE, how |-> "none", pos |-> 0]
        ELSE IF Truthy(name) /\ hits # {}
             THEN [raised |-> FALSE, how |-> "name", pos |-> SetMin(hits)]
        ELSE [raised |-> FALSE, how |-> "none", pos |-> 0]

\* The baseline read from the last annotation of the item.
Baseline_from_last_annotation(item) ==
    LET anns == Get(item, "annotations", << >>)
    IN  IF Len(anns) > 0
        THEN [second |-> Get(anns[Len(anns)], "startSecond", 0),
              nano |-> Get(anns[Len(anns)], "startNanoSecond", 0),
              label |-> Get(anns[Len(anns)], "actionQualityLabel", "qualified")]
        ELSE [second |-> 0, nano |-> 0, label |-> "qualified"]

\* Lines 232-244: the baseline of the matched item.
Baseline(item) ==
    LET anns == Get(item, "annotations", << >>)
    IN  IF Len(anns) > 0
        THEN [second |-> Get(anns[1], "startSecond", 0),
              nano |-> Get(anns[1], "startNanoSecond", 0),
              label |-> Get(anns[1], "actionQualityLabel", "qualified")]
        ELSE [second |-> 0, nano |-> 0, label |-> "qualified"]

\* No item was matched, so no baseline was read.
NoBase == [second |-> 0, nano |-> 0, label |-> "none"]

\* update_meta_annotations extending the annotations the item has instead
\* of replacing them.
update_meta_annotations_appending(mfile, efile, episode_index, vlm_result, raw_file_name) ==
    LET meta == load_meta(mfile)
        m == MatchRawData(meta.rawDataList, efile, episode_index, raw_file_name)
        base == Baseline(meta.rawDataList[m.pos])
        actions == Get(vlm_result, "actions", << >>)
        annotations == [i \in 1..Len(actions) |->
                          BuildAnnotation(actions[i], base.second, base.nano, base.label)]
        out(ret, file) == [ret |-> ret, file |-> file, how |-> m.how, pos |-> m.pos,
                           base |-> IF m.pos = 0 THEN NoBase ELSE base]
    IN  IF LoadMetaRaises(mfile)
        THEN [ret |-> "raised", file |-> mfile, how |-> "none", pos |-> 0,
              base |-> NoBase]
        ELSE IF "rawDataList" \notin DOMAIN meta
        THEN [ret |-> "false", file |-> mfile, how |-> "none", pos |-> 0,
              base |-> NoBase]
        ELSE IF m.raised THEN out("raised", mfile)
        ELSE IF m.pos = 0 THEN out("false", mfile)
        ELSE IF ConversionRaises(actions) THEN out("raised", mfile)
        ELSE LET saved == save_meta(mfile, [meta EXCEPT !.rawDataList[m.pos] =
                                                SetKey(@, "annotations",
                                                       Get(@, "annotations", << >>)
                                                           \o annotations)])
             IN  out(IF saved.raised THEN "raised" ELSE "true", saved.file)

\* update_meta_annotations: [ret, file, how, pos, base]; how, pos and base
\* are what the call logged: the match used and the baseline read.
update_meta_annotations(mfile, efile, episode_index, vlm_result, raw_file_name) ==
    LET meta == load_meta(mfile)
        m == MatchRawData(meta.rawDataList, efile, episode_index, raw_file_name)
        base == Baseline(meta.rawDataList[m.pos])
        actions == Get(vlm_result, "actions", << >>)
        annotations == [i \in 1..Len(actions) |->
                          BuildAnnotation(actions[i], base.second, base.nano, base.label)]
        out(ret, file) == [ret |-> ret, file |-> file, how |-> m.how, pos |-> m.pos,
                           base |-> IF m.pos = 0 THEN NoBase ELSE base]
    IN  IF LoadMetaRaises(mfile)
        THEN [ret |-> "raised", file |-> mfile, how |-> "none", pos |-> 0,
              base |-> NoBase]
        ELSE IF "rawDataList" \notin DOMAIN meta
        THEN [ret |-> "false", file |-> mfile, how |-> "none", pos |-> 0,
              base |-> NoBase]
        ELSE IF m.raised THEN out("raised", mfile)
        ELSE IF m.pos = 0 THEN out("false", mfile)
        ELSE IF ConversionRaises(actions) THEN out("raised", mfile)
        ELSE LET saved == save_meta(mfile, [meta EXCEPT !.rawDataList[m.pos] =
                                                SetKey(@, "annotations", annotations)])
             IN  out(IF saved.raised THEN "raised" ELSE "true", saved.file)

\* update_episode_full: [ret, efile, mfile, s1, s2, how, pos, base].  An exception
\* of update_episode_tasks leaves line 311 unreached (s2 = "skipped").
update_episode_full(efile, mfile, episode_index, vlm_result, raw_file_name) ==
    LET r1 == update_episode_tasks(efile, episode_index, vlm_result)
        r2 == update_meta_annotations(mfile, r1.file, episode_index, vlm_result,
                                      raw_file_name)
    IN  IF r1.ret = "raised"
        THEN [ret |-> "raised", efile |-> r1.file, mfile |-> mfile,
              s1 |-> "raised", s2 |-> "skipped", how |-> "none", pos |-> 0,
              base |-> NoBase]
        ELSE [ret |-> IF r2.ret = "raised" THEN "raised"
                      ELSE IF r1.ret = "true" /\ r2.ret = "true" THEN "true"
                      ELSE "false",
              efile |-> r1.file, mfile |-> r2.file,
              s1 |-> r1.ret, s2 |-> r2.ret, how |-> r2.how, pos |-> r2.pos,
              base |-> r2.base]

RECURSIVE batch_update(_, _, _, _, _)
\* batch_update (lines 327-351) from item i (counted from 0, as enumerate
\* does) of episode_annotations on, with a progress_callback given:
\* [raised, efile, mfile, success_count, calls, items].  calls are the
\* argument lists the callback got, items the episode_index and the
\* outcome of each update_episode_full that returned.  Nothing is caught,
\* so the item on which update_episode_full raises ends the loop.  (The set
\* of one element binds success to the value of the call.)
batch_update(efile, mfile, episode_annotations, i, acc) ==
    IF i >= Len(episode_annotations)
    THEN [raised |-> FALSE, efile |-> efile, mfile |-> mfile,
          success_count |-> acc.success_count, calls |-> acc.calls, items |-> acc.items]
    ELSE CHOOSE out \in
           { IF success.ret = "raised"
             THEN [raised |-> TRUE, efile |-> success.efile, mfile |-> success.mfile,
                   success_count |-> acc.success_count, calls |-> acc.calls,
                   items |-> acc.items]
             ELSE batch_update(
                      success.efile, success.mfile, episode_annotations, i + 1,
                      [success_count |-> IF success.ret = "true" THEN acc.success_count + 1
                                         ELSE acc.success_count,
                       calls |-> Append(acc.calls,
                                        [completed |-> i + 1,
                                         total |-> Len(episode_annotations),
                                         success |-> success.ret = "true"]),
                       items |-> Append(acc.items,
                                        [episode_index |-> Get(episode_annotations[i + 1],
                                                               "episode_index", NoneVal),
                                         success |-> success.ret = "true"])]) :
             success \in { update_episode_full(
                               efile, mfile,
                               Get(episode_annotations[i + 1], "episode_index", NoneVal),
                               Get(episode_annotations[i + 1], "vlm_result", NoneVal),
                               Get(episode_annotations[i + 1], "raw_file_name", NoneVal)) } } :
           TRUE

(***************************************************************************)
(* The stores a run starts from, and the inputs of the calls.              *)
(***************************************************************************)

Episode0 == [episode_index |-> 0, tasks |-> << "old task" >>, length |-> 120,
             raw_file_name |-> "raw_a"]
Episode1 == [episode_index |-> 1, tasks |-> << >>, length |-> 80]
Episode2 == [episode_index |-> 2, tasks |-> << "old task" >>, length |-> 95,
             raw_file_name |-> "raw_a", robot |-> "R1"]

OldAnnotation ==
    [text |-> "old", actionQualityLabel |-> "unqualified",
     startSecond |-> 1770293857, startNanoSecond |-> 260645179,
     endSecond |-> 1770293860, endNanoSecond |-> 5]

RawItemA == [name |-> "raw_a", path |-> "/data/raw_a", robotType |-> "R1",
             annotations |-> << OldAnnotation >>]
RawItemB == [name |-> "raw_b", path |-> "/data/raw_b", robotType |-> "R1"]

MetaDoc == [dataSetName |-> "straighten_papercup",
            rawDataList |-> << RawItemA, RawItemB >>]

\* A second dataset: an item whose annotations list is empty, an item with
\* two annotations, and fields this pipeline does not know.
FirstAnnotation ==
    [text |-> "first", actionQualityLabel |-> "review",
     startSecond |-> 100, startNanoSecond |-> 900000000,
     endSecond |-> 101, endNanoSecond |-> 0]

RawItemC == [name |-> "raw_c", path |-> "/data/raw_c", robotType |-> "R1",
             annotations |-> << >>, operator |-> "op7"]
RawItemD == [name |-> "raw_a", path |-> "/data/raw_d", robotType |-> "R1",
             annotations |-> << FirstAnnotation, OldAnnotation >>]

MetaDoc2 == [dataSetName |-> "straighten_papercup", version |-> "v3",
             rawDataList |-> << RawItemC, RawItemD >>]

EpisodeFiles ==
    { [exists |-> TRUE, readonly |-> FALSE, lines |-> << Episode0, Episode1, Episode2 >>],
      [exists |-> TRUE, readonly |-> TRUE, lines |-> << Episode0, Episode1, Episode2 >>],
      [exists |-> TRUE, readonly |-> FALSE, lines |-> << Episode0, MalformedLine, Episode2 >>],
      [exists |-> FALSE, readonly |-> FALSE, lines |-> << >>] }

MetaFiles ==
    { [exists |-> TRUE, readonly |-> FALSE, doc |-> MetaDoc],
      [exists |-> TRUE, readonly |-> FALSE, doc |-> MetaDoc2],
      [exists |-> TRUE, readonly |-> TRUE, doc |-> MetaDoc],
      [exists |-> TRUE, readonly |-> FALSE, doc |-> [dataSetName |-> "straighten_papercup"]],
      [exists |-> FALSE, readonly |-> FALSE, doc |-> EmptyDict] }

NaNTime == [nan |-> TRUE]

\* One action {start_time: 0, end_time: 5.5}, both descriptions.
ResultE2E ==
    [actions |-> << [start_time |-> [s |-> 0, n |-> 0], end_time |-> [s |-> 5, n |-> 500000000],
                     description |-> "zhuaqu beizi", description_en |-> "grasp cup"] >>,
     task_summary |-> "zhengli", task_summary_en |-> "arrange"]

\* Only description; only description_en; neither; both.  The first action
\* starts at 0.2 s and the times carry into the second.
ResultMixed ==
    [actions |-> << [start_time |-> [s |-> 0, n |-> 200000000],
                     end_time |-> [s |-> 0, n |-> 999999999],
                     description |-> "zhuaqu beizi"],
                    [start_time |-> [s |-> 1, n |-> 100000000],
                     end_time |-> [s |-> 5, n |-> 500000000],
                     description_en |-> "move cup"],
                    [start_time |-> [s |-> 5, n |-> 500000000]],
                    [start_time |-> [s |-> 5, n |-> 500000000],
                     end_time |-> [s |-> 12, n |-> 300000000],
                     description |-> "fuzheng", description_en |-> "straighten"] >>,
     task_summary |-> "zhengli", task_summary_en |-> "arrange"]

\* A start_time that is NaN (json.loads accepts the literal NaN).
ResultNaN ==
    [actions |-> << [start_time |-> NaNTime, end_time |-> [s |-> 1, n |-> 100000000],
                     description |-> "zhuaqu beizi", description_en |-> "grasp cup"] >>,
     task_summary |-> "", task_summary_en |-> ""]

\* No actions key at all.
ResultNoActions == [task_summary |-> "zhengli", task_summary_en |-> "arrange"]

\* One action whose description holds a lone surrogate.
ResultSurrogate ==
    [actions |-> << [start_time |-> [s |-> 0, n |-> 0], end_time |-> [s |-> 1, n |-> 0],
                     description |-> LoneSurrogate] >>,
     task_summary |-> "zhengli", task_summary_en |-> "arrange"]

Results == {ResultE2E, ResultMixed, ResultNaN, ResultNoActions, ResultSurrogate}

EpisodeIndices == {-3, -1, 0, 1, 2, 5}

RawFileNames == {NoneVal, "raw_a", "raw_zz"}

MaxBatch == 2

\* The items of episode_annotations: found and not found, a result that is
\* saved and one that is not, with and without raw_file_name.
BatchItems ==
    { [episode_index |-> 0, vlm_result |-> ResultE2E, video_duration |-> 6],
      [episode_index |-> 1, vlm_result |-> ResultMixed, raw_file_name |-> "raw_a"],
      [episode_index |-> 1, vlm_result |-> ResultSurrogate, video_duration |-> 1],
      [episode_index |-> 5, vlm_result |-> ResultE2E, raw_file_name |-> "raw_a"] }

Batches == UNION { [1..n -> BatchItems] : n \in 0..MaxBatch }

Stores == {"episodes", "meta"}

StoreFile(st) == IF st = "episodes" THEN episodesFile ELSE metaFile

MaxCalls == 2
MaxClock == 2
MaxBackupCalls == 3

NoCall == [op |-> "none", idx |-> 0, res |-> EmptyDict, raw |-> NoneVal,
           ret |-> "none", s1 |-> "none", s2 |-> "none", how |-> "none", pos |-> 0,
           base |-> [second |-> 0, nano |-> 0, label |-> "none"],
           efile0 |-> [exists |-> FALSE, readonly |-> FALSE, lines |-> << >>],
           mfile0 |-> [exists |-> FALSE, readonly |-> FALSE, doc |-> << >>],
           count |-> 0]

\* shutil.copy2(file, file.with_suffix('.bak_' + backup_time)): the copy
\* replaces a file already at that path.
CopyTo(bs, st, stamp, file) ==
    { b \in bs : ~(b.store = st /\ b.stamp = stamp) }
        \cup { [store |-> st, stamp |-> stamp, content |-> file] }

\* The backup files after the two guarded copies of lines 66-76.
BackupBoth(bs, stamp) ==
    LET b1 == IF episodesFile.exists THEN CopyTo(bs, "episodes", stamp, episodesFile)
              ELSE bs
    IN  IF metaFile.exists THEN CopyTo(b1, "meta", stamp, metaFile) ELSE b1

\* backup_original_files with the flag never set (line 78 dropped).
backup_flag_never_set(done, bs, cp, stamp) ==
    [done |-> FALSE, backups |-> BackupBoth(bs, stamp),
     copies |-> [st \in Stores |->
                   IF StoreFile(st).exists THEN cp[st] + 1 ELSE cp[st]]]

\* backup_original_files() on a DatasetUpdater whose flag is done, with
\* backup files bs on disk, at time stamp: [done, backups, copies].
backup_original_files(done, bs, cp, stamp) ==
    IF done THEN [done |-> done, backups |-> bs, copies |-> cp]
    ELSE [done |-> TRUE, backups |-> BackupBoth(bs, stamp),
          copies |-> [st \in Stores |->
                        IF StoreFile(st).exists THEN cp[st] + 1 ELSE cp[st]]]

\* A call of backup_original_files().
Backup ==
    /\ backupCalls < MaxBackupCalls
    /\ backupCalls' = backupCalls + 1
    /\ LET b == backup_original_files(backup_done, backups, copies, clock)
       IN  /\ backup_done' = b.done
           /\ backups' = b.backups
           /\ copies' = b.copies
    /\ UNCHANGED <<episodesFile, metaFile, clock, nCalls, last>>
    /\ UNCHANGED otherThanUpdater

\* A second passes.
Tick ==
    /\ clock < MaxClock
    /\ clock' = clock + 1
    /\ UNCHANGED <<episodesFile, metaFile, backups, backup_done, copies,
                   backupCalls, nCalls, last>>
    /\ UNCHANGED otherThanUpdater

\* update_episode_tasks(episode_index, vlm_result, video_duration)
CallUpdateEpisodeTasks(episode_index, vlm_result) ==
    /\ nCalls < MaxCalls
    /\ \E r \in { update_episode_tasks(episodesFile, episode_index, vlm_result) } :
        /\ nCalls' = nCalls + 1
        /\ episodesFile' = r.file
        /\ last' = [op |-> "tasks", idx |-> episode_index, res |-> vlm_result,
                    raw |-> NoneVal, ret |-> r.ret, s1 |-> r.ret, s2 |-> "none",
                    how |-> "none", pos |-> 0, base |-> NoBase,
                    efile0 |-> episodesFile, mfile0 |-> metaFile, count |-> 0]
        /\ UNCHANGED <<metaFile, backups, backup_done, clock, copies, backupCalls>>
        /\ UNCHANGED otherThanUpdater

\* update_meta_annotations(episode_index, vlm_result, raw_file_name)
CallUpdateMetaAnnotations(episode_index, vlm_result, raw_file_name) ==
    /\ nCalls < MaxCalls
    /\ \E r \in { update_meta_annotations(metaFile, episodesFile, episode_index,
                                        vlm_result, raw_file_name) } :
        /\ nCalls' = nCalls + 1
        /\ metaFile' = r.file
        /\ last' = [op |-> "meta", idx |-> episode_index, res |-> vlm_result,
                    raw |-> raw_file_name, ret |-> r.ret, s1 |-> "none", s2 |-> r.ret,
                    how |-> r.how, pos |-> r.pos, base |-> r.base,
                    efile0 |-> episodesFile, mfile0 |-> metaFile, count |-> 0]
        /\ UNCHANGED <<episodesFile, backups, backup_done, clock, copies, backupCalls>>
        /\ UNCHANGED otherThanUpdater

\* update_episode_full(episode_index, vlm_result, video_duration, raw_file_name)
CallUpdateEpisodeFull(episode_index, vlm_result, raw_file_name) ==
    /\ nCalls < MaxCalls
    /\ \E r \in { update_episode_full(episodesFile, metaFile, episode_index,
                                    vlm_result, raw_file_name) } :
        /\ nCalls' = nCalls + 1
        /\ episodesFile' = r.efile
        /\ metaFile' = r.mfile
        /\ last' = [op |-> "full", idx |-> episode_index, res |-> vlm_result,
                    raw |-> raw_file_name, ret |-> r.ret, s1 |-> r.s1, s2 |-> r.s2,
                    how |-> r.how, pos |-> r.pos, base |-> r.base,
                    efile0 |-> episodesFile, mfile0 |-> metaFile, count |-> 0]
        /\ UNCHANGED <<backups, backup_done, clock, copies, backupCalls>>
        /\ UNCHANGED otherThanUpdater

\* batch_update(episode_annotations)
CallBatchUpdate(episode_annotations) ==
    /\ nCalls < MaxCalls
    /\ \E r \in { batch_update(episodesFile, metaFile, episode_annotations, 0,
                               [success_count |-> 0, calls |-> << >>,
                                items |-> << >>]) } :
        /\ nCalls' = nCalls + 1
        /\ episodesFile' = r.efile
        /\ metaFile' = r.mfile
        /\ last' = [op |-> "batch", idx |-> Len(episode_annotations), res |-> EmptyDict,
                    raw |-> NoneVal, ret |-> IF r.raised THEN "raised" ELSE "none",
                    s1 |-> "none", s2 |-> "none", how |-> "none", pos |-> 0,
                    base |-> NoBase, efile0 |-> episodesFile, mfile0 |-> metaFile,
                    count |-> r.success_count, batch |-> episode_annotations,
                    calls |-> r.calls, items |-> r.items]
        /\ UNCHANGED <<backups, backup_done, clock, copies, backupCalls>>
        /\ UNCHANGED otherThanUpdater

(***************************************************************************)
(* VLMAnnotator (vlm_annotator.py).                                        *)
(*                                                                         *)
(* A Python value that may be returned is tagged with its type.  A reply   *)
(* text is a sequence of pieces: prose without braces or fences, the       *)
(* "```json" and "```" fences, the text of one JSON value, and a           *)
(* brace-delimited text that is no JSON.                                   *)
(***************************************************************************)

Unset == [t |-> "unset"]
PyNone == [t |-> "None"]
JObject(d) == [t |-> "object", v |-> d]
JArray(a) == [t |-> "array", v |-> a]

Noise == [k |-> "noise"]
FenceOpen == [k |-> "fence_open"]
FenceClose == [k |-> "fence_close"]
BadBraces == [k |-> "bad_braces"]
JsonText(value) == [k |-> "json", val |-> value]

\* json.loads(text): the value, or JSONDecodeError.  Only a text that is
\* one JSON value (surrounding whitespace aside) parses.
json_loads(text) ==
    IF Len(text) = 1 /\ text[1].k = "json"
    THEN [ok |-> TRUE, val |-> text[1].val]
    ELSE [ok |-> FALSE, val |-> PyNone]

\* re.search(r'```json\s*(.*?)\s*```', text): the interior of the first
\* fenced block, lazily closed by the next "```" (that of a further
\* "```json" included).
FencedInterior(text) ==
    LET opens == { i \in 1..Len(text) : text[i].k = "fence_open" }
        i == SetMin(opens)
        closes == { j \in 1..Len(text) :
                      j > i /\ text[j].k \in {"fence_open", "fence_close"} }
    IN  IF opens = {} THEN [found |-> FALSE, text |-> << >>]
        ELSE IF closes = {} THEN [found |-> FALSE, text |-> << >>]
        ELSE [found |-> TRUE, text |-> SubSeq(text, i + 1, SetMin(closes) - 1)]

HasBraces(piece) ==
    \/ piece.k = "bad_braces"
    \/ piece.k = "json" /\ piece.val.t = "object"

SetMax(S) == CHOOSE x \in S : \A y \in S : x >= y

\* re.search(r'\{.*\}', text, re.DOTALL): greedy, from the first "{" to the
\* last "}".
BraceSpan(text) ==
    LET braces == { i \in 1..Len(text) : HasBraces(text[i]) }
    IN  IF braces = {} THEN [found |-> FALSE, text |-> << >>]
        ELSE [found |-> TRUE, text |-> SubSeq(text, SetMin(braces), SetMax(braces))]

\* _parse_vlm_response keeping in raw_response only what line 364 prints,
\* the head of the text.
parse_keeps_head_of_text(response_text) ==
    LET whole == json_loads(response_text)
        fenced == FencedInterior(response_text)
        inFence == json_loads(fenced.text)
        span == BraceSpan(response_text)
        inSpan == json_loads(span.text)
    IN  IF whole.ok THEN whole.val
        ELSE IF fenced.found /\ inFence.ok THEN inFence.val
        ELSE IF span.found /\ inSpan.ok THEN inSpan.val
        ELSE JObject([actions |-> << >>, task_summary |-> "", task_summary_en |-> "",
                      error |-> "Failed to parse VLM response",
                      raw_response |-> IF response_text = << >> THEN << >>
                                       ELSE SubSeq(response_text, 1,
                                                   Len(response_text) - 1)])

\* _parse_vlm_response(response_text)
parse_vlm_response(response_text) ==
    LET whole == json_loads(response_text)
        fenced == FencedInterior(response_text)
        inFence == json_loads(fenced.text)
        span == BraceSpan(response_text)
        inSpan == json_loads(span.text)
    IN  IF whole.ok THEN whole.val
        ELSE IF fenced.found /\ inFence.ok THEN inFence.val
        ELSE IF span.found /\ inSpan.ok THEN inSpan.val
        ELSE JObject([actions |-> << >>, task_summary |-> "", task_summary_en |-> "",
                      error |-> "Failed to parse VLM response",
                      raw_response |-> response_text])

GridSize == 12
RetryDelay == 2
MaxRetries == 3

Larger(a, b) == IF a >= b THEN a ELSE b

\* frames[::step][:grid_size] with step = max(1, len(frames) // grid_size)
\* (video_processor.py 114-115, vlm_annotator.py 205-206).
SelectFrames(frames, grid_size) ==
    LET step == Larger(1, Len(frames) \div grid_size)
        picked == { i \in 1..Len(frames) : (i - 1) % step = 0 }
        count == IF Cardinality(picked) < grid_size THEN Cardinality(picked)
                 ELSE grid_size
    IN  [i \in 1..count |-> frames[(i - 1) * step + 1]]

\* The frame sequences of a call: none, one frame, three frames.
FrameSeqs ==
    { << >>,
      << [timestamp |-> 0] >>,
      << [timestamp |-> 0], [timestamp |-> 1], [timestamp |-> 2] >> }

GoodReply ==
    JObject([actions |-> << [start_time |-> [s |-> 0, n |-> 0],
                             end_time |-> [s |-> 5, n |-> 500000000],
                             description |-> "zhuaqu beizi",
                             description_en |-> "grasp cup"] >>,
             task_summary |-> "zhengli", task_summary_en |-> "arrange"])

\* What a request can meet: requests.post raising, raise_for_status raising
\* on an HTTP error status, a body whose envelope cannot be read
\* (resp.json(), choices[0] or a content that is no text raising), or a
\* reply text.
Failures == { [kind |-> "transport_error"], [kind |-> "http_error"],
              [kind |-> "bad_body"] }

ReplyTexts ==
    { << JsonText(GoodReply) >>,
      << JsonText(JArray(<< >>)) >>,
      << JsonText(JObject(EmptyDict)) >>,
      << Noise, FenceOpen, JsonText(GoodReply), FenceClose >>,
      << Noise, JsonText(GoodReply), Noise >>,
      << Noise >> }

Outcomes == Failures \cup { [kind |-> "reply", text |-> t] : t \in ReplyTexts }

NoVlmCall == [frames |-> << >>, use_grid |-> TRUE, made |-> FALSE]

EmptyResult == JObject([actions |-> << >>, task_summary |-> "", task_summary_en |-> ""])

\* The degraded result of lines 290 and 327.
Degraded(e) ==
    JObject([actions |-> << >>, task_summary |-> "", task_summary_en |-> "",
             error |-> e])

\* annotate_video_frames(encoded_frames, episode_info, use_grid) up to the
\* retry loop.  Grid mode returns the empty result when create_frame_grid
\* selects no frame; sequence mode formats encoded_frames[-1][0], which
\* raises IndexError on an empty list.
AnnotateVideoFrames(encoded_frames, use_grid) ==
    /\ vPc = "idle"
    /\ vCall' = [frames |-> encoded_frames, use_grid |-> use_grid, made |-> TRUE]
    /\ IF use_grid /\ SelectFrames(encoded_frames, GridSize) = << >>
       THEN /\ vPc' = "done"
            /\ vResult' = EmptyResult
            /\ vRaised' = FALSE
       ELSE IF ~use_grid /\ encoded_frames = << >>
       THEN /\ vPc' = "done"
            /\ vResult' = Unset
            /\ vRaised' = TRUE
       ELSE /\ vPc' = "attempt"
            /\ UNCHANGED <<vResult, vRaised>>
    /\ UNCHANGED <<max_retries, vAttempt, vEvents, vWaited, vOutcomes>>
    /\ UNCHANGED otherThanVlm

\* The except branch testing "attempt < self.max_retries": it sleeps after
\* the last failure too and never reaches the degraded return.
Attempt_sleeps_after_last(outcome) ==
    /\ vPc = "attempt"
    /\ vAttempt < max_retries
    /\ vEvents' = Append(vEvents, "request")
    /\ vOutcomes' = Append(vOutcomes, outcome)
    /\ IF outcome.kind = "reply"
       THEN /\ vResult' = parse_vlm_response(outcome.text)
            /\ vPc' = "done"
       ELSE /\ vPc' = "sleep"
            /\ UNCHANGED vResult
    /\ UNCHANGED <<max_retries, vAttempt, vWaited, vRaised, vCall>>
    /\ UNCHANGED otherThanVlm

\* One pass of "for attempt in range(self.max_retries)": the request, then
\* the parsed reply returned or the except branch.
Attempt(outcome) ==
    /\ vPc = "attempt"
    /\ vAttempt < max_retries
    /\ vEvents' = Append(vEvents, "request")
    /\ vOutcomes' = Append(vOutcomes, outcome)
    /\ IF outcome.kind = "reply"
       THEN /\ vResult' = parse_vlm_response(outcome.text)
            /\ vPc' = "done"
       ELSE IF vAttempt < max_retries - 1
       THEN /\ vPc' = "sleep"
            /\ UNCHANGED vResult
       ELSE /\ vResult' = Degraded(outcome.kind)
            /\ vPc' = "done"
    /\ UNCHANGED <<max_retries, vAttempt, vWaited, vRaised, vCall>>
    /\ UNCHANGED otherThanVlm

\* The range is exhausted without a return: the function falls off its end
\* and returns None.
LoopExit ==
    /\ vPc = "attempt"
    /\ vAttempt >= max_retries
    /\ vResult' = PyNone
    /\ vPc' = "done"
    /\ UNCHANGED <<max_retries, vAttempt, vEvents, vWaited, vOutcomes, vRaised, vCall>>
    /\ UNCHANGED otherThanVlm

\* time.sleep(self.retry_delay), then the next attempt.
Sleep ==
    /\ vPc = "sleep"
    /\ vEvents' = Append(vEvents, "sleep")
    /\ vWaited' = vWaited + RetryDelay
    /\ vAttempt' = vAttempt + 1
    /\ vPc' = "attempt"
    /\ UNCHANGED <<max_retries, vOutcomes, vResult, vRaised, vCall>>
    /\ UNCHANGED otherThanVlm

(***************************************************************************)
(* AutoAnnotator (auto_annotate.py): one run of main().                    *)
(*                                                                         *)
(* The glob episode_*.mp4 finds episode_000000.mp4, episode_000001.mp4,    *)
(* ... and any other file of that shape, such as episode_final.mp4.  A     *)
(* video is kept by what follows "episode_" in its name: six digits, as    *)
(* [index |-> k], or a word, as [word |-> w].  Digits sort before letters. *)
(* What process_video and annotate_video_frames give is an input of the    *)
(* step that calls them.                                                   *)
(***************************************************************************)

MaxVideos == 2

\* time.sleep(1) between two items.
PacingDelay == 1

\* episode_00000k.mp4 and episode_final.mp4
Video(k) == [index |-> k]
UnnumberedVideo == [word |-> "final"]

\* What the video directory may hold.
Directories ==
    { { Video(k) : k \in 0..(n - 1) } \cup extra :
        n \in 0..MaxVideos, extra \in { {}, {UnnumberedVideo} } }

\* Path order of two files of the directory.
NameBefore(a, b) ==
    IF "index" \in DOMAIN a
    THEN "index" \notin DOMAIN b \/ a.index < b.index
    ELSE FALSE

RECURSIVE sorted(_)
\* sorted(self.video_base_dir.glob("episode_*.mp4"))
sorted(files) ==
    IF files = {} THEN << >>
    ELSE LET first == CHOOSE f \in files : \A g \in files \ {f} : NameBefore(f, g)
         IN  << first >> \o sorted(files \ {first})

\* get_episode_index(video_path): int() of what follows the last "_" raises
\* ValueError on a word.
get_episode_index(video_path) ==
    IF "index" \in DOMAIN video_path
    THEN [raised |-> FALSE, index |-> video_path.index]
    ELSE [raised |-> TRUE, index |-> 0]

\* --max_episodes and --single: None, or a number.
NoNumber == [none |-> TRUE]
Numbers(S) == {NoNumber} \cup { [n |-> k] : k \in S }

\* seq[:n] and seq[n:] for n >= 0
Take(seq, n) == SubSeq(seq, 1, IF n < Len(seq) THEN n ELSE Len(seq))
Drop(seq, n) == SubSeq(seq, (IF n < Len(seq) THEN n ELSE Len(seq)) + 1, Len(seq))

\* find_video_files keeping every file whatever max_episodes is.
find_video_files_uncapped(files, cap) == sorted(files)

\* find_video_files()
find_video_files(files, cap) ==
    IF cap = NoNumber THEN sorted(files) ELSE Take(sorted(files), cap.n)

\* main() lines 299-303: the first video of the list whose index is the one
\* asked for; get_episode_index raises on a word met before it.
\* [raised, found, video]
FindSingle(found, n) ==
    LET hits == { k \in 1..Len(found) : found[k] = Video(n) }
        words == { k \in 1..Len(found) : get_episode_index(found[k]).raised }
    IN  IF hits # {} /\ (words = {} \/ SetMin(hits) < SetMin(words))
        THEN [raised |-> FALSE, found |-> TRUE, video |-> found[SetMin(hits)]]
        ELSE [raised |-> words # {}, found |-> FALSE, video |-> Video(n)]

\* get_episode_info(episode_index): the first episode with that index, {}
\* for none; load_episodes may raise.
get_episode_info(efile, episode_index) ==
    LET loaded == load_episodes(efile)
        pos == FindEpisode(loaded.episodes, episode_index)
    IN  [raised |-> loaded.raised,
         info |-> IF loaded.raised \/ pos = 0 THEN EmptyDict ELSE loaded.episodes[pos]]

\* What process_video gives: frames, no frame, or an exception (a video
\* that cannot be opened).
ExtractOutcomes == {"frames", "empty", "raises"}

\* What annotate_video_frames gives back.
VlmReturns == { JObject(ResultE2E), JObject(ResultNaN), JObject(ResultNoActions),
                Degraded("http_error"), PyNone, JArray(<< >>) }

BatchMode == single = NoNumber

\* The video annotate_single_video is working on, and its index.
CurrentVideo == video_files[loop_i + 1]
CurrentIndex == get_episode_index(CurrentVideo).index

\* The task context of the user prompt (vlm_annotator.py lines 185, 225):
\* episode_info.get('task', ...) of a dict that is not empty.
UnknownTask == "weizhi renwu"
task_context(episode_info) ==
    IF episode_info # EmptyDict THEN Get(episode_info, "task", UnknownTask)
    ELSE UnknownTask

\* How the caller goes on once annotate_single_video has ended with a
\* result, with None or with an exception.  Batch (lines 196-209): the
\* result or the index is recorded, the pacing sleep follows a returned
\* value that is not the last one, "continue" follows an exception.
\* Single item (lines 306-308): an exception leaves main().
Finish(kind, trace) ==
    LET sleeps == BatchMode /\ kind # "exception" /\ loop_i < Len(video_files) - 1
    IN  /\ results' = IF kind = "result" THEN Append(results, CurrentIndex)
                      ELSE results
        /\ failed_episodes' = IF BatchMode /\ kind # "result"
                              THEN Append(failed_episodes, CurrentIndex)
                              ELSE failed_episodes
        /\ oTrace' = IF sleeps THEN Append(trace, [e |-> "sleep"]) ELSE trace
        /\ clock' = IF sleeps THEN clock + PacingDelay ELSE clock
        /\ loop_i' = loop_i + 1
        /\ oPc' = IF ~BatchMode
                  THEN (IF kind = "exception" THEN "crashed" ELSE "done")
                  ELSE IF loop_i + 1 < Len(video_files) THEN "extract"
                  ELSE "summary"

\* main() up to the first video: find_video_files, then the slice of
\* annotate_all_videos or the search for --single.  In single-item mode
\* video_files holds the target alone.
Start ==
    /\ oPc = "start"
    /\ LET found == find_video_files(video_dir, max_episodes)
       IN  IF BatchMode
           THEN /\ video_files' = IF start_index > 0 THEN Drop(found, start_index)
                                  ELSE found
                /\ oPc' = "backup"
           ELSE LET target == FindSingle(found, single.n)
                IN  /\ video_files' = IF target.found THEN << target.video >> ELSE << >>
                    /\ oPc' = IF target.found THEN "extract"
                              ELSE IF target.raised THEN "crashed"
                              ELSE "done"
    /\ UNCHANGED <<video_dir, max_episodes, start_index, single, loop_i, oEpisodeInfo,
                   oVlmResult, results, failed_episodes, oTrace, origEpisodes,
                   origMeta, writes, unsafeWrite>>
    /\ UNCHANGED updaterVars
    /\ UNCHANGED outsideRun

\* annotate_all_videos line 187, then the loop's first test.
BatchBackup ==
    /\ oPc = "backup"
    /\ LET b == backup_original_files(backup_done, backups, copies, clock)
       IN  /\ backup_done' = b.done
           /\ backups' = b.backups
           /\ copies' = b.copies
    /\ backupCalls' = backupCalls + 1
    /\ oTrace' = Append(oTrace, [e |-> "backup"])
    /\ oPc' = IF Len(video_files) > 0 THEN "extract" ELSE "summary"
    /\ UNCHANGED <<video_dir, max_episodes, start_index, single, video_files, loop_i,
                   oEpisodeInfo, oVlmResult, results, failed_episodes,
                   origEpisodes, origMeta, writes, unsafeWrite>>
    /\ UNCHANGED <<episodesFile, metaFile, clock, nCalls, last>>
    /\ UNCHANGED outsideRun

\* annotate_single_video lines 108-125: the episode's index and info, then
\* the frames.  The ValueError of get_episode_index (line 108) is caught at
\* line 205 and raised again by the handler's own get_episode_index (line
\* 206), which nothing catches.
Extract(outcome) ==
    /\ oPc = "extract"
    /\ LET got == get_episode_info(episodesFile, CurrentIndex)
           began == Append(oTrace, [e |-> "item", video |-> CurrentVideo])
           extracted == Append(began, [e |-> "extract", idx |-> CurrentIndex,
                                       outcome |-> outcome])
       IN  IF get_episode_index(CurrentVideo).raised
           THEN /\ oTrace' = began
                /\ oPc' = "crashed"
                /\ UNCHANGED <<oEpisodeInfo, loop_i, results, failed_episodes, clock>>
           ELSE IF got.raised
           THEN /\ Finish("exception", began)
                /\ UNCHANGED <<oEpisodeInfo>>
           ELSE IF outcome = "raises"
           THEN /\ Finish("exception", extracted)
                /\ UNCHANGED <<oEpisodeInfo>>
           ELSE IF outcome = "empty"
           THEN /\ Finish("none", extracted)
                /\ UNCHANGED <<oEpisodeInfo>>
           ELSE /\ oEpisodeInfo' = got.info
                /\ oTrace' = extracted
                /\ oPc' = "infer"
                /\ UNCHANGED <<loop_i, results, failed_episodes, clock>>
    /\ UNCHANGED <<video_dir, max_episodes, start_index, single, video_files, oVlmResult,
                   origEpisodes, origMeta, writes, unsafeWrite>>
    /\ UNCHANGED <<episodesFile, metaFile, backups, backup_done, copies,
                   backupCalls, nCalls, last>>
    /\ UNCHANGED outsideRun

\* annotate_single_video without the test of line 135.
Infer_saves_error_result(vlm_return) ==
    /\ oPc = "infer"
    /\ LET inferred == Append(oTrace,
                              [e |-> "infer", idx |-> CurrentIndex,
                               info |-> oEpisodeInfo,
                               context |-> task_context(oEpisodeInfo),
                               error |-> IF vlm_return.t = "object"
                                         THEN "error" \in DOMAIN vlm_return.v
                                         ELSE FALSE,
                               raised |-> vlm_return.t # "object"])
       IN  IF vlm_return.t # "object"
           THEN /\ Finish("exception", inferred)
                /\ UNCHANGED <<oVlmResult>>
           ELSE /\ oVlmResult' = vlm_return.v
                /\ oTrace' = inferred
                /\ oPc' = "save"
                /\ UNCHANGED <<loop_i, results, failed_episodes, clock>>
    /\ UNCHANGED <<video_dir, max_episodes, start_index, single, video_files, oEpisodeInfo,
                   origEpisodes, origMeta, writes, unsafeWrite>>
    /\ UNCHANGED <<episodesFile, metaFile, backups, backup_done, copies,
                   backupCalls, nCalls, last>>
    /\ UNCHANGED outsideRun

\* annotate_single_video lines 127-144.  "'error' in vlm_result" raises on
\* None, and vlm_result.get raises on a list; the prints format the times
\* of the actions, which are numbers or NaN here.
Infer(vlm_return) ==
    /\ oPc = "infer"
    /\ LET inferred == Append(oTrace,
                              [e |-> "infer", idx |-> CurrentIndex,
                               info |-> oEpisodeInfo,
                               context |-> task_context(oEpisodeInfo),
                               error |-> IF vlm_return.t = "object"
                                         THEN "error" \in DOMAIN vlm_return.v
                                         ELSE FALSE,
                               raised |-> vlm_return.t # "object"])
       IN  IF vlm_return.t # "object"
           THEN /\ Finish("exception", inferred)
                /\ UNCHANGED <<oVlmResult>>
           ELSE IF "error" \in DOMAIN vlm_return.v
           THEN /\ Finish("none", inferred)
                /\ UNCHANGED <<oVlmResult>>
           ELSE /\ oVlmResult' = vlm_return.v
                /\ oTrace' = inferred
                /\ oPc' = "save"
                /\ UNCHANGED <<loop_i, results, failed_episodes, clock>>
    /\ UNCHANGED <<video_dir, max_episodes, start_index, single, video_files, oEpisodeInfo,
                   origEpisodes, origMeta, writes, unsafeWrite>>
    /\ UNCHANGED <<episodesFile, metaFile, backups, backup_done, copies,
                   backupCalls, nCalls, last>>
    /\ UNCHANGED outsideRun

\* annotate_single_video without its own backup call (line 150 dropped).
SaveBackup_skipped ==
    /\ oPc = "save"
    /\ oPc' = "update"
    /\ UNCHANGED <<video_dir, max_episodes, start_index, single, video_files, loop_i,
                   oEpisodeInfo, oVlmResult, results, failed_episodes, oTrace,
                   origEpisodes, origMeta, writes, unsafeWrite>>
    /\ UNCHANGED updaterVars
    /\ UNCHANGED outsideRun

\* annotate_single_video line 150.
SaveBackup ==
    /\ oPc = "save"
    /\ LET b == backup_original_files(backup_done, backups, copies, clock)
       IN  /\ backup_done' = b.done
           /\ backups' = b.backups
           /\ copies' = b.copies
    /\ backupCalls' = backupCalls + 1
    /\ oTrace' = Append(oTrace, [e |-> "backup"])
    /\ oPc' = "update"
    /\ UNCHANGED <<video_dir, max_episodes, start_index, single, video_files, loop_i,
                   oEpisodeInfo, oVlmResult, results, failed_episodes,
                   origEpisodes, origMeta, writes, unsafeWrite>>
    /\ UNCHANGED <<episodesFile, metaFile, clock, nCalls, last>>
    /\ UNCHANGED outsideRun

\* annotate_single_video lines 152-170: update_episode_full, whose return
\* value is printed only; the item's dict is returned unless it raised.
SaveUpdate ==
    /\ oPc = "update"
    /\ \E raw_file_name \in { Get(oEpisodeInfo, "raw_file_name", NoneVal) } :
       \E r \in { update_episode_full(episodesFile, metaFile, CurrentIndex,
                                      oVlmResult, raw_file_name) } :
       \E written \in { (IF r.s1 = "true" \/ r.efile # episodesFile THEN 1 ELSE 0)
                          + (IF r.s2 = "true" \/ r.mfile # metaFile THEN 1 ELSE 0) } :
          /\ episodesFile' = r.efile
          /\ metaFile' = r.mfile
          /\ nCalls' = nCalls + 1
          /\ last' = [op |-> "full", idx |-> CurrentIndex, res |-> oVlmResult,
                      raw |-> raw_file_name, ret |-> r.ret, s1 |-> r.s1,
                      s2 |-> r.s2, how |-> r.how, pos |-> r.pos, base |-> r.base,
                      efile0 |-> episodesFile, mfile0 |-> metaFile, count |-> 0]
          /\ writes' = writes + written
          /\ unsafeWrite' = (unsafeWrite \/ (written > 0 /\ ~backup_done))
          /\ Finish(IF r.ret = "raised" THEN "exception" ELSE "result",
                    Append(oTrace, [e |-> "mutate", idx |-> CurrentIndex,
                                    ret |-> r.ret, s1 |-> r.s1, s2 |-> r.s2]))
    /\ UNCHANGED <<video_dir, max_episodes, start_index, single, video_files, oEpisodeInfo,
                   oVlmResult, origEpisodes, origMeta>>
    /\ UNCHANGED <<backups, backup_done, copies, backupCalls>>
    /\ UNCHANGED outsideRun

(***************************************************************************)
(* _parse_vlm_response as a function of the reply text                     *)
(* (vlm_annotator.py 329-371).                                             *)
(***************************************************************************)

MaxPieces == 4

\* The pieces a reply text is made of: prose, the two fences, braces that
\* hold no JSON, the text of a JSON object and the text of a JSON array.
Pieces == { Noise, FenceOpen, FenceClose, BadBraces, JsonText(GoodReply),
            JsonText(JArray(<< >>)) }

ResponseTexts == UNION { [1..n -> Pieces] : n \in 0..MaxPieces }

\* _parse_vlm_response(response_text)
Parse ==
    /\ ~pDone
    /\ pResult' = parse_vlm_response(pText)
    /\ pDone' = TRUE
    /\ UNCHANGED pText
    /\ UNCHANGED otherThanParse

(***************************************************************************)
(* create_frame_grid (video_processor.py 101-165).  A frame is kept by its *)
(* timestamp; the grid image is kept by its cells in row-major order, each *)
(* with the frame drawn in it and the text stamped on it.                  *)
(***************************************************************************)

MaxFrames == 25
MaxGrid == 5

\* The frames process_video gives for a video of n sampled frames.
FramesOf(n) == [i \in 1..n |-> [timestamp |-> i - 1]]

\* int(np.ceil(np.sqrt(k)))
CeilSqrt(k) == CHOOSE r \in 0..k : r * r >= k /\ \A q \in 0..k : q * q >= k => r <= q

\* int(np.ceil(a / b))
CeilDiv(a, b) == (a + b - 1) \div b

\* Lines 131-159: the cell at row-major position p, from 1.  Image idx goes
\* to row idx // cols and column idx % cols and is stamped with "timestamp",
\* the variable the loop of lines 123-128 left at the last selected frame.
GridCells(selected) ==
    LET k == Len(selected)
        rows == CeilSqrt(k)
        cols == CeilDiv(k, rows)
        position(idx) == (idx \div cols) * cols + (idx % cols) + 1
        timestamp == selected[k].timestamp
    IN  [p \in 1..k |->
            LET idx == CHOOSE x \in 0..(k - 1) : position(x) = p
            IN  [frame |-> selected[idx + 1].timestamp, stamp |-> timestamp]]

\* create_frame_grid(frames, grid_size): [raised, timestamps, cells];
\* grid_size = 0 divides by zero at line 114, and no cell stands for the
\* empty image marker "".
create_frame_grid(frames, grid_size) ==
    IF grid_size = 0
    THEN [raised |-> TRUE, timestamps |-> << >>, cells |-> << >>]
    ELSE LET selected_frames == SelectFrames(frames, grid_size)
         IN  IF selected_frames = << >>
             THEN [raised |-> FALSE, timestamps |-> << >>, cells |-> << >>]
             ELSE [raised |-> FALSE,
                   timestamps |-> [i \in 1..Len(selected_frames) |->
                                      selected_frames[i].timestamp],
                   cells |-> GridCells(selected_frames)]

\* A call of create_frame_grid(frames, grid_size).
CreateFrameGrid ==
    /\ ~gDone
    /\ \E r \in { create_frame_grid(gFrames, gSize) } :
          /\ gRaised' = r.raised
          /\ gTimestamps' = r.timestamps
          /\ gCells' = r.cells
    /\ gDone' = TRUE
    /\ UNCHANGED <<gFrames, gSize>>
    /\ UNCHANGED otherThanGrid

(***************************************************************************)
(* extract_frames as a function of the video's frame rate, the sampling    *)
(* rate and the number of frames the video decodes to                      *)
(* (video_processor.py 41-63).  A frame rate that cv2 reports, such as     *)
(* 29.97, is kept in hundredths of a frame per second; self.fps is an int. *)
(***************************************************************************)

MaxDecoded == 12

\* cap.get(cv2.CAP_PROP_FPS), in hundredths: 7.5, 15, 29.97, 30 and 60.
OriginalFps == {750, 1500, 2997, 3000, 6000}

\* VideoFrameExtractor(fps=...)
SamplingFps == {1, 2, 4, 8, 30, 60}

\* extract_frames: [raised, frame_interval, frames].  int() of a positive
\* quotient is its floor; frame_count % 0 raises ZeroDivisionError at the
\* first frame read.  A kept frame is [frame_count, timestamp], the
\* timestamp frame_count / original_fps as a fraction.
extract_frames(original_fps, fps, decoded) ==
    LET frame_interval == original_fps \div (100 * fps)
        kept == IF frame_interval = 0 THEN 0
                ELSE (decoded + frame_interval - 1) \div frame_interval
    IN  IF decoded > 0 /\ frame_interval = 0
        THEN [raised |-> TRUE, frame_interval |-> frame_interval, frames |-> << >>]
        ELSE [raised |-> FALSE, frame_interval |-> frame_interval,
              frames |-> [k \in 1..kept |->
                            [frame_count |-> (k - 1) * frame_interval,
                             timestamp |-> [num |-> (k - 1) * frame_interval * 100,
                                            den |-> original_fps]]]]

NoExtraction == [original_fps |-> 100, fps |-> 1, decoded |-> 0]
NotExtracted == [done |-> FALSE, raised |-> FALSE, frame_interval |-> 0, frames |-> << >>]

\* A call of extract_frames(video_path).
ExtractFrames ==
    /\ ~efResult.done
    /\ \E r \in { extract_frames(efCall.original_fps, efCall.fps, efCall.decoded) } :
          efResult' = [done |-> TRUE, raised |-> r.raised,
                       frame_interval |-> r.frame_interval, frames |-> r.frames]
    /\ UNCHANGED efCall
    /\ UNCHANGED otherThanExtract

vars == <<timeVars, updaterVars, vlmVars, orchVars, parseVars, gridVars, extractVars>>

(***************************************************************************)
(* Specifications.  Each Init sets its own group to the states the code    *)
(* can start from and every other group to its idle value.                 *)
(***************************************************************************)

IdleTime == [second |-> 0, nano |-> 0]
IdleRel == [s |-> 0, n |-> 0]
AbsentEpisodes == [exists |-> FALSE, readonly |-> FALSE, lines |-> << >>]
AbsentMeta == [exists |-> FALSE, readonly |-> FALSE, doc |-> EmptyDict]
NoCopies == [st \in Stores |-> 0]

\* SpecTime: a baseline and a relative time, then the conversion.
InitTime ==
    /\ tcBase \in [second : BaseSeconds, nano : BaseNanos]
    /\ tcRel \in RelTimes
    /\ tcOut = IdleTime
    /\ tcDone = FALSE
    /\ episodesFile = AbsentEpisodes
    /\ metaFile = AbsentMeta
    /\ backups = {}
    /\ backup_done = FALSE
    /\ clock = 0
    /\ copies = NoCopies
    /\ backupCalls = 0
    /\ nCalls = 0
    /\ last = NoCall
    /\ max_retries = 0
    /\ vPc = "idle"
    /\ vAttempt = 0
    /\ vEvents = << >>
    /\ vWaited = 0
    /\ vOutcomes = << >>
    /\ vResult = Unset
    /\ vRaised = FALSE
    /\ vCall = NoVlmCall
    /\ video_dir = {}
    /\ max_episodes = NoNumber
    /\ single = NoNumber
    /\ start_index = 0
    /\ video_files = << >>
    /\ loop_i = 0
    /\ oPc = "idle"
    /\ oEpisodeInfo = EmptyDict
    /\ oVlmResult = EmptyDict
    /\ results = << >>
    /\ failed_episodes = << >>
    /\ oTrace = << >>
    /\ origEpisodes = AbsentEpisodes
    /\ origMeta = AbsentMeta
    /\ writes = 0
    /\ unsafeWrite = FALSE
    /\ pText = << >>
    /\ pResult = Unset
    /\ pDone = FALSE
    /\ gFrames = << >>
    /\ gSize = 1
    /\ gTimestamps = << >>
    /\ gCells = << >>
    /\ gRaised = FALSE
    /\ gDone = FALSE
    /\ efCall = NoExtraction
    /\ efResult = NotExtracted

NextTime == Convert

SpecTime == InitTime /\ [][NextTime]_vars

\* DatasetUpdater(dataset_dir) on some dataset directory (lines 14-35).
InitUpdater ==
    /\ tcBase = IdleTime
    /\ tcRel = IdleRel
    /\ tcOut = IdleTime
    /\ tcDone = FALSE
    /\ episodesFile \in EpisodeFiles
    /\ metaFile \in MetaFiles
    /\ backups = {}
    /\ backup_done = FALSE
    /\ clock = 0
    /\ copies = NoCopies
    /\ backupCalls = 0
    /\ nCalls = 0
    /\ last = NoCall
    /\ max_retries = 0
    /\ vPc = "idle"
    /\ vAttempt = 0
    /\ vEvents = << >>
    /\ vWaited = 0
    /\ vOutcomes = << >>
    /\ vResult = Unset
    /\ vRaised = FALSE
    /\ vCall = NoVlmCall
    /\ video_dir = {}
    /\ max_episodes = NoNumber
    /\ single = NoNumber
    /\ start_index = 0
    /\ video_files = << >>
    /\ loop_i = 0
    /\ oPc = "idle"
    /\ oEpisodeInfo = EmptyDict
    /\ oVlmResult = EmptyDict
    /\ results = << >>
    /\ failed_episodes = << >>
    /\ oTrace = << >>
    /\ origEpisodes = AbsentEpisodes
    /\ origMeta = AbsentMeta
    /\ writes = 0
    /\ unsafeWrite = FALSE
    /\ pText = << >>
    /\ pResult = Unset
    /\ pDone = FALSE
    /\ gFrames = << >>
    /\ gSize = 1
    /\ gTimestamps = << >>
    /\ gCells = << >>
    /\ gRaised = FALSE
    /\ gDone = FALSE
    /\ efCall = NoExtraction
    /\ efResult = NotExtracted

\* SpecBackup: backup_original_files any number of times, seconds passing
\* and the stores being rewritten in between.
NextBackup ==
    \/ Backup
    \/ Tick
    \/ \E i \in {0, 2} : CallUpdateEpisodeFull(i, ResultE2E, NoneVal)

SpecBackup == InitUpdater /\ [][NextBackup]_vars

\* SpecUpdater: update_episode_tasks and update_meta_annotations calls.
NextUpdater ==
    \/ \E i \in EpisodeIndices, r \in Results : CallUpdateEpisodeTasks(i, r)
    \/ \E i \in EpisodeIndices, r \in Results, f \in RawFileNames :
          CallUpdateMetaAnnotations(i, r, f)

SpecUpdater == InitUpdater /\ [][NextUpdater]_vars

\* SpecFull: update_episode_full calls.
NextFull ==
    \E i \in EpisodeIndices, r \in Results, f \in RawFileNames :
        CallUpdateEpisodeFull(i, r, f)

SpecFull == InitUpdater /\ [][NextFull]_vars

\* SpecSeq: any sequence of the four update operations on the stores;
\* origEpisodes and origMeta keep the stores as they were before it.
InitSeq ==
    /\ tcBase = IdleTime
    /\ tcRel = IdleRel
    /\ tcOut = IdleTime
    /\ tcDone = FALSE
    /\ episodesFile \in EpisodeFiles
    /\ metaFile \in MetaFiles
    /\ backups = {}
    /\ backup_done = FALSE
    /\ clock = 0
    /\ copies = NoCopies
    /\ backupCalls = 0
    /\ nCalls = 0
    /\ last = NoCall
    /\ max_retries = 0
    /\ vPc = "idle"
    /\ vAttempt = 0
    /\ vEvents = << >>
    /\ vWaited = 0
    /\ vOutcomes = << >>
    /\ vResult = Unset
    /\ vRaised = FALSE
    /\ vCall = NoVlmCall
    /\ video_dir = {}
    /\ max_episodes = NoNumber
    /\ single = NoNumber
    /\ start_index = 0
    /\ video_files = << >>
    /\ loop_i = 0
    /\ oPc = "idle"
    /\ oEpisodeInfo = EmptyDict
    /\ oVlmResult = EmptyDict
    /\ results = << >>
    /\ failed_episodes = << >>
    /\ oTrace = << >>
    /\ origEpisodes = episodesFile
    /\ origMeta = metaFile
    /\ writes = 0
    /\ unsafeWrite = FALSE
    /\ pText = << >>
    /\ pResult = Unset
    /\ pDone = FALSE
    /\ gFrames = << >>
    /\ gSize = 1
    /\ gTimestamps = << >>
    /\ gCells = << >>
    /\ gRaised = FALSE
    /\ gDone = FALSE
    /\ efCall = NoExtraction
    /\ efResult = NotExtracted

NextSeq ==
    \/ \E i \in {0, 1, 5}, r \in {ResultE2E, ResultSurrogate} : CallUpdateEpisodeTasks(i, r)
    \/ \E i \in {-1, 1, 5}, r \in {ResultMixed, ResultSurrogate}, f \in {NoneVal, "raw_a"} :
          CallUpdateMetaAnnotations(i, r, f)
    \/ \E i \in {0, 2, 5}, r \in {ResultE2E, ResultNaN, ResultSurrogate} :
          CallUpdateEpisodeFull(i, r, NoneVal)
    \/ \E b \in Batches : CallBatchUpdate(b)

SpecSeq == InitSeq /\ [][NextSeq]_vars

\* VLMAnnotator(max_retries = ...) (lines 117-141).
InitVlm ==
    /\ tcBase = IdleTime
    /\ tcRel = IdleRel
    /\ tcOut = IdleTime
    /\ tcDone = FALSE
    /\ episodesFile = AbsentEpisodes
    /\ metaFile = AbsentMeta
    /\ backups = {}
    /\ backup_done = FALSE
    /\ clock = 0
    /\ copies = NoCopies
    /\ backupCalls = 0
    /\ nCalls = 0
    /\ last = NoCall
    /\ max_retries \in 0..MaxRetries
    /\ vPc = "idle"
    /\ vAttempt = 0
    /\ vEvents = << >>
    /\ vWaited = 0
    /\ vOutcomes = << >>
    /\ vResult = Unset
    /\ vRaised = FALSE
    /\ vCall = NoVlmCall
    /\ video_dir = {}
    /\ max_episodes = NoNumber
    /\ single = NoNumber
    /\ start_index = 0
    /\ video_files = << >>
    /\ loop_i = 0
    /\ oPc = "idle"
    /\ oEpisodeInfo = EmptyDict
    /\ oVlmResult = EmptyDict
    /\ results = << >>
    /\ failed_episodes = << >>
    /\ oTrace = << >>
    /\ origEpisodes = AbsentEpisodes
    /\ origMeta = AbsentMeta
    /\ writes = 0
    /\ unsafeWrite = FALSE
    /\ pText = << >>
    /\ pResult = Unset
    /\ pDone = FALSE
    /\ gFrames = << >>
    /\ gSize = 1
    /\ gTimestamps = << >>
    /\ gCells = << >>
    /\ gRaised = FALSE
    /\ gDone = FALSE
    /\ efCall = NoExtraction
    /\ efResult = NotExtracted

\* SpecVlm: one annotate_video_frames call against an endpoint that may
\* answer each request in any way.
NextVlm ==
    \/ \E f \in FrameSeqs, g \in BOOLEAN : AnnotateVideoFrames(f, g)
    \/ \E o \in Outcomes : Attempt(o)
    \/ LoopExit
    \/ Sleep

SpecVlm == InitVlm /\ [][NextVlm]_vars

\* One run of main(): the stores as found, the command line's numbers.
InitOrch ==
    /\ tcBase = IdleTime
    /\ tcRel = IdleRel
    /\ tcOut = IdleTime
    /\ tcDone = FALSE
    /\ episodesFile \in EpisodeFiles
    /\ metaFile \in MetaFiles
    /\ backups = {}
    /\ backup_done = FALSE
    /\ clock = 0
    /\ copies = NoCopies
    /\ backupCalls = 0
    /\ nCalls = 0
    /\ last = NoCall
    /\ max_retries = 0
    /\ vPc = "idle"
    /\ vAttempt = 0
    /\ vEvents = << >>
    /\ vWaited = 0
    /\ vOutcomes = << >>
    /\ vResult = Unset
    /\ vRaised = FALSE
    /\ vCall = NoVlmCall
    /\ video_dir \in Directories
    /\ max_episodes \in Numbers(0..MaxVideos)
    /\ single \in Numbers(0..MaxVideos)
    /\ start_index \in IF single = NoNumber THEN 0..MaxVideos ELSE {0}
    /\ video_files = << >>
    /\ loop_i = 0
    /\ oPc = "start"
    /\ oEpisodeInfo = EmptyDict
    /\ oVlmResult = EmptyDict
    /\ results = << >>
    /\ failed_episodes = << >>
    /\ oTrace = << >>
    /\ origEpisodes = episodesFile
    /\ origMeta = metaFile
    /\ writes = 0
    /\ unsafeWrite = FALSE
    /\ pText = << >>
    /\ pResult = Unset
    /\ pDone = FALSE
    /\ gFrames = << >>
    /\ gSize = 1
    /\ gTimestamps = << >>
    /\ gCells = << >>
    /\ gRaised = FALSE
    /\ gDone = FALSE
    /\ efCall = NoExtraction
    /\ efResult = NotExtracted

NextOrch ==
    \/ Start
    \/ BatchBackup
    \/ \E outcome \in ExtractOutcomes : Extract(outcome)
    \/ \E vlm_return \in VlmReturns : Infer(vlm_return)
    \/ SaveBackup
    \/ SaveUpdate

SpecOrch == InitOrch /\ [][NextOrch]_vars

\* A reply text of up to MaxPieces pieces.
InitParse ==
    /\ tcBase = IdleTime
    /\ tcRel = IdleRel
    /\ tcOut = IdleTime
    /\ tcDone = FALSE
    /\ episodesFile = AbsentEpisodes
    /\ metaFile = AbsentMeta
    /\ backups = {}
    /\ backup_done = FALSE
    /\ clock = 0
    /\ copies = NoCopies
    /\ backupCalls = 0
    /\ nCalls = 0
    /\ last = NoCall
    /\ max_retries = 0
    /\ vPc = "idle"
    /\ vAttempt = 0
    /\ vEvents = << >>
    /\ vWaited = 0
    /\ vOutcomes = << >>
    /\ vResult = Unset
    /\ vRaised = FALSE
    /\ vCall = NoVlmCall
    /\ video_dir = {}
    /\ max_episodes = NoNumber
    /\ single = NoNumber
    /\ start_index = 0
    /\ video_files = << >>
    /\ loop_i = 0
    /\ oPc = "idle"
    /\ oEpisodeInfo = EmptyDict
    /\ oVlmResult = EmptyDict
    /\ results = << >>
    /\ failed_episodes = << >>
    /\ oTrace = << >>
    /\ origEpisodes = AbsentEpisodes
    /\ origMeta = AbsentMeta
    /\ writes = 0
    /\ unsafeWrite = FALSE
    /\ pText \in ResponseTexts
    /\ pResult = Unset
    /\ pDone = FALSE
    /\ gFrames = << >>
    /\ gSize = 1
    /\ gTimestamps = << >>
    /\ gCells = << >>
    /\ gRaised = FALSE
    /\ gDone = FALSE
    /\ efCall = NoExtraction
    /\ efResult = NotExtracted

NextParse == Parse

SpecParse == InitParse /\ [][NextParse]_vars

\* A frame list and a grid size, that of _annotate_with_grid among them.
InitGrid ==
    /\ tcBase = IdleTime
    /\ tcRel = IdleRel
    /\ tcOut = IdleTime
    /\ tcDone = FALSE
    /\ episodesFile = AbsentEpisodes
    /\ metaFile = AbsentMeta
    /\ backups = {}
    /\ backup_done = FALSE
    /\ clock = 0
    /\ copies = NoCopies
    /\ backupCalls = 0
    /\ nCalls = 0
    /\ last = NoCall
    /\ max_retries = 0
    /\ vPc = "idle"
    /\ vAttempt = 0
    /\ vEvents = << >>
    /\ vWaited = 0
    /\ vOutcomes = << >>
    /\ vResult = Unset
    /\ vRaised = FALSE
    /\ vCall = NoVlmCall
    /\ video_dir = {}
    /\ max_episodes = NoNumber
    /\ single = NoNumber
    /\ start_index = 0
    /\ video_files = << >>
    /\ loop_i = 0
    /\ oPc = "idle"
    /\ oEpisodeInfo = EmptyDict
    /\ oVlmResult = EmptyDict
    /\ results = << >>
    /\ failed_episodes = << >>
    /\ oTrace = << >>
    /\ origEpisodes = AbsentEpisodes
    /\ origMeta = AbsentMeta
    /\ writes = 0
    /\ unsafeWrite = FALSE
    /\ pText = << >>
    /\ pResult = Unset
    /\ pDone = FALSE
    /\ gFrames \in { FramesOf(n) : n \in 0..MaxFrames }
    /\ gSize \in 0..MaxGrid \cup {GridSize}
    /\ gTimestamps = << >>
    /\ gCells = << >>
    /\ gRaised = FALSE
    /\ gDone = FALSE
    /\ efCall = NoExtraction
    /\ efResult = NotExtracted

NextGrid == CreateFrameGrid

SpecGrid == InitGrid /\ [][NextGrid]_vars

\* SpecExtract: a video and a sampling rate, then extract_frames.
InitExtract ==
    /\ tcBase = IdleTime
    /\ tcRel = IdleRel
    /\ tcOut = IdleTime
    /\ tcDone = FALSE
    /\ episodesFile = AbsentEpisodes
    /\ metaFile = AbsentMeta
    /\ backups = {}
    /\ backup_done = FALSE
    /\ clock = 0
    /\ copies = NoCopies
    /\ backupCalls = 0
    /\ nCalls = 0
    /\ last = NoCall
    /\ max_retries = 0
    /\ vPc = "idle"
    /\ vAttempt = 0
    /\ vEvents = << >>
    /\ vWaited = 0
    /\ vOutcomes = << >>
    /\ vResult = Unset
    /\ vRaised = FALSE
    /\ vCall = NoVlmCall
    /\ video_dir = {}
    /\ max_episodes = NoNumber
    /\ single = NoNumber
    /\ start_index = 0
    /\ video_files = << >>
    /\ loop_i = 0
    /\ oPc = "idle"
    /\ oEpisodeInfo = EmptyDict
    /\ oVlmResult = EmptyDict
    /\ results = << >>
    /\ failed_episodes = << >>
    /\ oTrace = << >>
    /\ origEpisodes = AbsentEpisodes
    /\ origMeta = AbsentMeta
    /\ writes = 0
    /\ unsafeWrite = FALSE
    /\ pText = << >>
    /\ pResult = Unset
    /\ pDone = FALSE
    /\ gFrames = << >>
    /\ gSize = 1
    /\ gTimestamps = << >>
    /\ gCells = << >>
    /\ gRaised = FALSE
    /\ gDone = FALSE
    /\ efCall \in [original_fps : OriginalFps, fps : SamplingFps, decoded : 0..MaxDecoded]
    /\ efResult = NotExtracted

NextExtract == ExtractFrames

SpecExtract == InitExtract /\ [][NextExtract]_vars

(***************************************************************************)
(* Claims.                                                                 *)
(***************************************************************************)

ZeroRel == [s |-> 0, n |-> 0]

\* C5: for a baseline (S, N) with 0 <= N < NS, relative time 0 converts to
\* exactly (S, N), and every relative time, negative ones included, converts
\* to a nanosecond component in [0, NS).
C5_ZeroMapsToBaselineAndNanoInRange ==
    (tcDone /\ 0 <= tcBase.nano /\ tcBase.nano < NS) =>
        /\ 0 <= tcOut.nano /\ tcOut.nano < NS
        /\ (tcRel = ZeroRel => tcOut = tcBase)

C5_Witness ==
    /\ tcDone
    /\ tcRel = [s |-> 0, n |-> -500000000]
    /\ tcBase = [second |-> 100, nano |-> 260645179]
    /\ tcOut = [second |-> 99, nano |-> 760645179]

\* C6: the carry is a floor division.  With r = tcRel.s * NS + tcRel.n the
\* claim's second * NS + nanosecond = S * NS + N + r is stated with S * NS and
\* tcRel.s * NS subtracted on both sides; together with 0 <= nanosecond < NS
\* it fixes second and nanosecond as the floor quotient and remainder.
\* Baseline (100, 900_000_000) with offset 0.2 s gives (101, 100_000_000).
C6_FloorCarry ==
    tcDone =>
        /\ (tcOut.second - tcBase.second - tcRel.s) * NS + tcOut.nano
               = tcBase.nano + tcRel.n
        /\ 0 <= tcOut.nano /\ tcOut.nano < NS
        /\ (tcBase = [second |-> 100, nano |-> 900000000]
               /\ tcRel = [s |-> 0, n |-> 200000000])
            => tcOut = [second |-> 101, nano |-> 100000000]

C6_Witness ==
    /\ tcDone
    /\ tcBase = [second |-> 100, nano |-> 900000000]
    /\ tcRel = [s |-> 0, n |-> 200000000]
    /\ tcOut = [second |-> 101, nano |-> 100000000]

\* C1: after N >= 1 calls of backup_original_files on one DatasetUpdater,
\* exactly one copy of each existing store has been made (none of a store
\* that does not exist) and exactly one backup file of it is on disk: the
\* calls after the first copy nothing, whatever happened in between.
C1_ExactlyOneBackupPerStore ==
    backupCalls >= 1 =>
        \A st \in Stores :
            LET want == IF StoreFile(st).exists THEN 1 ELSE 0
            IN  /\ copies[st] = want
                /\ Cardinality({ b \in backups : b.store = st }) = want

\* Three calls, a second elapsed and the episode store rewritten since the
\* only copy was taken.
C1_Witness ==
    /\ backupCalls = 3
    /\ clock >= 1
    /\ copies = [st \in Stores |-> 1]
    /\ \E b \in backups : b.store = "episodes" /\ b.content # episodesFile

\* C3: update_episode_full always attempts both updates, returns a value,
\* and that value is true exactly when both updates succeeded; with the
\* episode update done and the meta update failed it returns false.
C3_BothAttemptedReturnsConjunction ==
    last.op = "full" =>
        /\ last.s2 # "skipped"
        /\ last.ret \in {"true", "false"}
        /\ (last.ret = "true") <=> (last.s1 = "true" /\ last.s2 = "true")
        /\ (last.s1 = "true" /\ last.s2 # "true") => last.ret = "false"

\* C4: update_meta_annotations matches by position exactly when
\* 0 <= episode_index < len(rawDataList), then on the item at that position
\* whatever raw_file_name names; for any other episode_index the positional
\* item is not used.
C4_PositionalExactlyWhenValid ==
    (last.op = "meta" /\ "rawDataList" \in DOMAIN load_meta(metaFile)) =>
        LET n == Len(metaFile.doc.rawDataList)
            valid == 0 <= last.idx /\ last.idx < n
        IN  /\ valid => (last.how = "index" /\ last.pos = last.idx + 1)
            /\ ~valid => last.how # "index"

\* The annotations of the item the last call matched.
TargetAnnotations == metaFile.doc.rawDataList[last.pos].annotations

E2ECase ==
    /\ last.op = "meta"
    /\ last.idx = 0
    /\ last.res = ResultE2E
    /\ last.ret = "true"
    /\ last.base.second = 1770293857
    /\ last.base.nano = 260645179

\* C7 as stated: the one action {start_time: 0, end_time: 5.5} on baseline
\* (1770293857, 260645179) gives endSecond 1770293862 and endNanoSecond
\* 260645179.
C7_AsStated ==
    E2ECase =>
        /\ Len(TargetAnnotations) = 1
        /\ TargetAnnotations[1].startSecond = 1770293857
        /\ TargetAnnotations[1].startNanoSecond = 260645179
        /\ TargetAnnotations[1].endSecond = 1770293862
        /\ TargetAnnotations[1].endNanoSecond = 260645179

\* C7 amended: the half second of 5.5 s is added to the nanoseconds, so
\* endNanoSecond is 760645179; the three other fields are as stated.
C7_EndToEnd ==
    E2ECase =>
        /\ Len(TargetAnnotations) = 1
        /\ TargetAnnotations[1].startSecond = 1770293857
        /\ TargetAnnotations[1].startNanoSecond = 260645179
        /\ TargetAnnotations[1].endSecond = 1770293862
        /\ TargetAnnotations[1].endNanoSecond = 760645179

C7_Witness ==
    /\ E2ECase
    /\ last.how = "index"
    /\ last.pos = 1
    /\ TargetAnnotations[1].endNanoSecond = 760645179

HasText(action, key) == key \in DOMAIN action /\ action[key] # ""

\* The tasks list the claim describes: the actions that have a description,
\* in action order, each as "description@description_en" when it also has a
\* description_en and as the description alone when it has not.
ClaimedTasks(actions) ==
    LET kept == SelectSeq(actions, LAMBDA a : HasText(a, "description"))
    IN  [i \in 1..Len(kept) |->
            IF HasText(kept[i], "description_en")
            THEN kept[i].description \o "@" \o kept[i].description_en
            ELSE kept[i].description]

\* C8: after a successful update_episode_tasks the episode's tasks are one
\* entry per action that has a description, in action order, joined with
\* "@" to description_en when present; actions without a description add
\* nothing and there is no other entry.
C8_TasksFromActions ==
    (last.op = "tasks" /\ last.ret = "true") =>
        LET pos == FindEpisode(episodesFile.lines, last.idx)
        IN  /\ pos # 0
            /\ episodesFile.lines[pos].tasks
                  = ClaimedTasks(Get(last.res, "actions", << >>))
            /\ last.res = ResultMixed =>
                  episodesFile.lines[pos].tasks
                      = << "zhuaqu beizi", "fuzheng@straighten" >>

C8_Witness ==
    /\ last.op = "tasks"
    /\ last.ret = "true"
    /\ last.idx = 1
    /\ last.res = ResultMixed
    /\ episodesFile.lines[2].tasks = << "zhuaqu beizi", "fuzheng@straighten" >>

Requests == Len(SelectSeq(vEvents, LAMBDA e : e = "request"))

AllAttemptsFailed == \A i \in 1..Len(vOutcomes) : vOutcomes[i].kind # "reply"

\* C9: when requests were sent and every one of them failed, exactly
\* max_retries requests were sent, each but the last followed by one sleep of
\* the retry delay, and the degraded result carries the failure of the last
\* request; a request that got a reply is the last request and ends the call.
\* (With max_retries = 0 no attempt is made at all: that case is C10's.)
C9_RetryThenDegraded ==
    /\ \A k \in 1..Len(vEvents) :
          vEvents[k] = IF k % 2 = 1 THEN "request" ELSE "sleep"
    /\ \A i \in 1..Len(vOutcomes) :
          vOutcomes[i].kind = "reply" => (i = Len(vOutcomes) /\ vPc = "done")
    /\ (vPc = "done" /\ Len(vOutcomes) >= 1 /\ AllAttemptsFailed) =>
          /\ Requests = max_retries
          /\ Len(vEvents) = 2 * max_retries - 1
          /\ vWaited = (max_retries - 1) * RetryDelay
          /\ vResult = JObject([actions |-> << >>, task_summary |-> "",
                                task_summary_en |-> "",
                                error |-> vOutcomes[Len(vOutcomes)].kind])

C9_Witness ==
    /\ vPc = "done"
    /\ max_retries = 3
    /\ Len(vOutcomes) = 3
    /\ vOutcomes[1].kind = "transport_error"
    /\ vOutcomes[3].kind = "http_error"
    /\ vWaited = 4
    /\ vResult.t = "object"
    /\ vResult.v.error = "http_error"

\* C10: annotate_video_frames never raises and what it returns is a mapping
\* with actions, task_summary and task_summary_en, for every reply, every
\* max_retries >= 0, both modes and every frame sequence.
C10_NeverRaisesAlwaysResult ==
    vPc = "done" =>
        /\ ~vRaised
        /\ vResult.t = "object"
        /\ {"actions", "task_summary", "task_summary_en"} \subseteq DOMAIN vResult.v

Orig(st) == IF st = "episodes" THEN origEpisodes ELSE origMeta

\* C2: in a run, batch or single item, no store is written before the
\* backup has completed; once the backup is done it holds, for each store
\* that existed, the content the store had when the run began; and no store
\* is copied twice in a run.
C2_BackupBeforeEveryWrite ==
    /\ ~unsafeWrite
    /\ writes > 0 => backup_done
    /\ (episodesFile # origEpisodes \/ metaFile # origMeta) => backup_done
    /\ backup_done =>
          \A st \in Stores :
              Orig(st).exists =>
                  \E b \in backups : b.store = st /\ b.content = Orig(st)
    /\ \A st \in Stores :
          /\ copies[st] <= 1
          /\ Cardinality({ b \in backups : b.store = st }) <= 1

C2_Witness ==
    /\ oPc = "summary"
    /\ Len(results) = 2
    /\ writes = 4
    /\ clock = PacingDelay
    /\ backupCalls = 3
    /\ episodesFile # origEpisodes
    /\ metaFile # origMeta
    /\ Cardinality(backups) = 2

\* The first brace-delimited group of a text, alone.
FirstBraceGroup(text) ==
    LET braces == { i \in 1..Len(text) : HasBraces(text[i]) }
    IN  IF braces = {} THEN [found |-> FALSE, text |-> << >>]
        ELSE [found |-> TRUE, text |-> << text[SetMin(braces)] >>]

\* C11: the value returned is that of the whole text when it parses;
\* otherwise that of the fenced block's interior when there is one and it
\* parses; otherwise that of the first {...} span of the text when there is
\* one and it parses.
C11_StagesInPrecedence ==
    pDone =>
        LET whole == json_loads(pText)
            fenced == FencedInterior(pText)
            inFence == json_loads(fenced.text)
            first == FirstBraceGroup(pText)
            inFirst == json_loads(first.text)
        IN  IF whole.ok THEN pResult = whole.val
            ELSE IF fenced.found /\ inFence.ok THEN pResult = inFence.val
            ELSE IF first.found /\ inFirst.ok THEN pResult = inFirst.val
            ELSE TRUE

\* Every stage of _parse_vlm_response fails on the text.
AllStagesFail(text) ==
    /\ ~json_loads(text).ok
    /\ ~(FencedInterior(text).found /\ json_loads(FencedInterior(text).text).ok)
    /\ ~(BraceSpan(text).found /\ json_loads(BraceSpan(text).text).ok)

\* C12: when the three stages fail, the value returned is the degraded
\* result: no actions, empty summaries, the fixed error text, and the
\* whole response text, unchanged, as raw_response.
C12_DegradedKeepsRawResponse ==
    (pDone /\ AllStagesFail(pText)) =>
        pResult = JObject([actions |-> << >>, task_summary |-> "",
                           task_summary_en |-> "",
                           error |-> "Failed to parse VLM response",
                           raw_response |-> pText])

C12_Witness ==
    /\ pDone
    /\ pText = << Noise, FenceOpen, BadBraces, FenceClose >>
    /\ pResult.t = "object"
    /\ pResult.v.error = "Failed to parse VLM response"
    /\ pResult.v.raw_response = << Noise, FenceOpen, BadBraces, FenceClose >>

\* C13: for grid_size >= 1 the timestamps returned are those of the frames
\* at indices 0, step, 2 * step, ... with step = max(1, n // grid_size), at
\* most grid_size of them, in order; the first frame is among them when
\* there is a frame; no frames give no timestamps and no image; and the
\* selection reaches over the whole sequence: no frame lies a full stride
\* or more past the last selected one.
C13_StrideSampleOverWholeSequence ==
    (gDone /\ gSize >= 1) =>
        LET n == Len(gFrames)
            step == Larger(1, n \div gSize)
            K == Len(gTimestamps)
        IN  /\ ~gRaised
            /\ K <= gSize
            /\ K = IF CeilDiv(n, step) < gSize THEN CeilDiv(n, step) ELSE gSize
            /\ \A i \in 1..K :
                  gTimestamps[i] = gFrames[(i - 1) * step + 1].timestamp
            /\ n > 0 => (K >= 1 /\ gTimestamps[1] = gFrames[1].timestamp)
            /\ n = 0 => (gTimestamps = << >> /\ gCells = << >>)
            /\ n > 0 => (K - 1) * step + step >= n

\* C14: the cell at row-major position i holds the i-th selected frame and
\* is stamped with that frame's timestamp.
C14_CellStampedWithOwnTimestamp ==
    (gDone /\ ~gRaised) =>
        /\ Len(gCells) = Len(gTimestamps)
        /\ \A i \in 1..Len(gCells) :
              /\ gCells[i].frame = gTimestamps[i]
              /\ gCells[i].stamp = gTimestamps[i]

\* The annotations the last update_meta_annotations call left on the item
\* it matched, and those the item had before the call.
NewAnnotations == metaFile.doc.rawDataList[last.pos].annotations
OldAnnotations == Get(last.mfile0.doc.rawDataList[last.pos], "annotations", << >>)
LastActions == Get(last.res, "actions", << >>)

AnnotationFields == {"text", "actionQualityLabel", "startSecond", "startNanoSecond",
                     "endSecond", "endNanoSecond"}

\* The baseline the claim describes: that of the first annotation the item
\* had before the call, (0, 0, "qualified") when it had none.
ClaimedBaseline ==
    IF OldAnnotations = << >>
    THEN [second |-> 0, nano |-> 0, label |-> "qualified"]
    ELSE [second |-> OldAnnotations[1].startSecond,
          nano |-> OldAnnotations[1].startNanoSecond,
          label |-> OldAnnotations[1].actionQualityLabel]

\* C15: after a successful update_meta_annotations the matched item's
\* annotations are one Annotation per action, in action order, with the
\* action's description as text and the baseline's label; nothing of the
\* list the item had before is kept.
C15_AnnotationsReplacedPerAction ==
    (last.op = "meta" /\ last.ret = "true") =>
        /\ Len(NewAnnotations) = Len(LastActions)
        /\ \A i \in 1..Len(NewAnnotations) :
              /\ DOMAIN NewAnnotations[i] = AnnotationFields
              /\ NewAnnotations[i].text = Get(LastActions[i], "description", "")
              /\ NewAnnotations[i].actionQualityLabel = ClaimedBaseline.label
        /\ \A i \in 1..Len(NewAnnotations) :
              NewAnnotations[i].text \notin {"old", "first"}

C15_Witness ==
    /\ last.op = "meta"
    /\ last.ret = "true"
    /\ last.res = ResultMixed
    /\ OldAnnotations = << FirstAnnotation, OldAnnotation >>
    /\ Len(NewAnnotations) = 4
    /\ NewAnnotations[2].text = ""
    /\ NewAnnotations[4].actionQualityLabel = "review"

\* C16: the baseline a successful update_meta_annotations converts with is
\* the start and the label of the first annotation the matched item had
\* before the call, and (0, 0, "qualified") when it had none, the field
\* missing or the list empty.
C16_BaselineFromFirstAnnotation ==
    (last.op = "meta" /\ last.ret = "true") =>
        /\ last.base = ClaimedBaseline
        /\ \A i \in 1..Len(NewAnnotations) :
              LET start == ToAbsolute(ClaimedBaseline.second, ClaimedBaseline.nano,
                                      Get(LastActions[i], "start_time", [s |-> 0, n |-> 0]))
              IN  /\ NewAnnotations[i].startSecond = start.second
                  /\ NewAnnotations[i].startNanoSecond = start.nano
                  /\ NewAnnotations[i].actionQualityLabel = ClaimedBaseline.label

C16_Witness ==
    /\ last.op = "meta"
    /\ last.ret = "true"
    /\ last.res = ResultMixed
    /\ OldAnnotations = << FirstAnnotation, OldAnnotation >>
    /\ last.base = [second |-> 100, nano |-> 900000000, label |-> "review"]
    /\ NewAnnotations[1].startSecond = 101
    /\ NewAnnotations[1].startNanoSecond = 100000000

\* C17: a successful update_episode_tasks changes the tasks field of the
\* record with the given episode_index and nothing else: its other fields,
\* the other records and the meta store are as before.
C17_OnlyTasksFieldChanges ==
    (last.op = "tasks" /\ last.ret = "true") =>
        LET old == last.efile0.lines
            new == episodesFile.lines
        IN  /\ Len(new) = Len(old)
            /\ \E i \in 1..Len(old) : old[i].episode_index = last.idx
            /\ \A i \in 1..Len(old) :
                  IF old[i].episode_index = last.idx
                  THEN /\ DOMAIN new[i] = DOMAIN old[i] \cup {"tasks"}
                       /\ \A k \in DOMAIN old[i] \ {"tasks"} : new[i][k] = old[i][k]
                  ELSE new[i] = old[i]
            /\ metaFile = last.mfile0

C17_Witness ==
    /\ last.op = "tasks"
    /\ last.ret = "true"
    /\ last.idx = 2
    /\ last.res = ResultE2E
    /\ episodesFile.lines[3].robot = "R1"
    /\ episodesFile.lines[3].tasks = << "zhuaqu beizi@grasp cup" >>
    /\ last.efile0.lines[3].tasks = << "old task" >>

\* C18: a successful update_meta_annotations changes the annotations field
\* of the one matched item and nothing else: its other fields, the other
\* items, the other top-level fields and the episode store are as before.
C18_OnlyAnnotationsFieldChanges ==
    (last.op = "meta" /\ last.ret = "true") =>
        LET old == last.mfile0.doc
            new == metaFile.doc
        IN  /\ DOMAIN new = DOMAIN old
            /\ \A k \in DOMAIN old \ {"rawDataList"} : new[k] = old[k]
            /\ Len(new.rawDataList) = Len(old.rawDataList)
            /\ \A i \in 1..Len(old.rawDataList) :
                  IF i = last.pos
                  THEN /\ DOMAIN new.rawDataList[i]
                             = DOMAIN old.rawDataList[i] \cup {"annotations"}
                       /\ \A k \in DOMAIN old.rawDataList[i] \ {"annotations"} :
                             new.rawDataList[i][k] = old.rawDataList[i][k]
                  ELSE new.rawDataList[i] = old.rawDataList[i]
            /\ episodesFile = last.efile0

C18_Witness ==
    /\ last.op = "meta"
    /\ last.ret = "true"
    /\ last.pos = 1
    /\ last.res = ResultE2E
    /\ last.mfile0.doc = MetaDoc2
    /\ metaFile.doc.version = "v3"
    /\ metaFile.doc.rawDataList[1].operator = "op7"
    /\ Len(metaFile.doc.rawDataList[1].annotations) = 1
    /\ metaFile.doc.rawDataList[2] = RawItemD

\* C20: update_episode_tasks on an index no record has returns false and
\* leaves the episode store as it was; update_meta_annotations that finds no
\* item by position or by name, or no rawDataList, returns false and leaves
\* the meta store as it was.
C20_NotFoundLeavesStoreUntouched ==
    /\ (last.op = "tasks" /\ ~load_episodes(last.efile0).raised
          /\ \A i \in 1..Len(last.efile0.lines) :
                last.efile0.lines[i].episode_index # last.idx) =>
            (last.ret = "false" /\ episodesFile = last.efile0)
    /\ (last.op = "tasks" /\ last.ret = "false") => episodesFile = last.efile0
    /\ (last.op = "meta" /\ ~LoadMetaRaises(last.mfile0)
          /\ "rawDataList" \notin DOMAIN load_meta(last.mfile0)) =>
            (last.ret = "false" /\ metaFile = last.mfile0)
    /\ (last.op = "meta" /\ last.pos = 0) =>
            (last.ret # "true" /\ last.how = "none" /\ metaFile = last.mfile0)
    /\ (last.op = "meta" /\ last.ret = "false") =>
            (last.pos = 0 /\ metaFile = last.mfile0)

C20_Witness ==
    /\ last.op = "tasks"
    /\ last.idx = 5
    /\ last.ret = "false"
    /\ nCalls = 2
    /\ Len(episodesFile.lines) = 3
    /\ episodesFile = last.efile0
    /\ episodesFile.lines[1].tasks = << "zhuaqu beizi@grasp cup" >>

EpisodeIndexOf(lines) == [i \in 1..Len(lines) |-> Get(lines[i], "episode_index", NoneVal)]

NamesOf(doc) ==
    LET items == Get(doc, "rawDataList", << >>)
    IN  [i \in 1..Len(items) |-> Get(items[i], "name", NoneVal)]

\* C19: whatever update_episode_tasks, update_meta_annotations,
\* update_episode_full and batch_update calls were made, succeeding or
\* failing, the episode store holds the records it held before them, as
\* many and with the same episode_index in the same order, and rawDataList
\* holds the items it held, as many and with the same names in the same
\* order.
C19_RecordsNeverCreatedOrDeleted ==
    /\ episodesFile.exists = origEpisodes.exists
    /\ Len(episodesFile.lines) = Len(origEpisodes.lines)
    /\ (~load_episodes(origEpisodes).raised =>
            EpisodeIndexOf(episodesFile.lines) = EpisodeIndexOf(origEpisodes.lines))
    /\ metaFile.exists = origMeta.exists
    /\ NamesOf(metaFile.doc) = NamesOf(origMeta.doc)

\* The name the fallback of the last update_meta_annotations call looks for:
\* the argument, or the raw_file_name of the Episode record with that index.
WantedName ==
    IF last.raw # NoneVal THEN last.raw
    ELSE LET loaded == load_episodes(last.efile0)
             pos == FindEpisode(loaded.episodes, last.idx)
         IN  IF pos = 0 THEN NoneVal
             ELSE Get(loaded.episodes[pos], "raw_file_name", NoneVal)

\* C21: when episode_index is no valid position of rawDataList (below 0 or
\* not below its length), a successful update_meta_annotations has updated
\* the first item whose name is the wanted name, and every item with
\* another name is as it was.
C21_NameFallbackWhenNotPositional ==
    (/\ last.op = "meta"
     /\ last.ret = "true"
     /\ (last.idx < 0 \/ last.idx >= Len(last.mfile0.doc.rawDataList))) =>
        LET old == last.mfile0.doc.rawDataList
            new == metaFile.doc.rawDataList
            hits == { i \in 1..Len(old) : Get(old[i], "name", NoneVal) = WantedName }
        IN  /\ hits # {}
            /\ last.pos = SetMin(hits)
            /\ \A i \in 1..Len(old) :
                  Get(old[i], "name", NoneVal) # WantedName => new[i] = old[i]

\* C30: update_meta_annotations applied once more with the same arguments
\* after it has succeeded leaves the meta store as the first application
\* left it.
C30_SecondApplicationChangesNothing ==
    (last.op = "meta" /\ last.ret = "true") =>
        update_meta_annotations(metaFile, episodesFile, last.idx, last.res,
                                last.raw).file = metaFile

\* The items of the last batch_update among the first i that succeeded.
SucceededUpTo(i) == Cardinality({ j \in 1..i : last.items[j].success })

\* bool is an int in Python: True == 1 and False == 0.
PyInt(b) == IF b THEN 1 ELSE 0

\* C25: batch_update has processed every item, in list order, has called
\* the callback once after each with (completed, total, succeeded), succeeded
\* being the number of items that succeeded so far, and its tally is the
\* number of items for which update_episode_full returned true.
C25_CallbackAfterEachItemWithCounts ==
    last.op = "batch" =>
        LET total == Len(last.batch)
        IN  /\ Len(last.items) = total
            /\ \A i \in 1..Len(last.items) :
                  last.items[i].episode_index = last.batch[i].episode_index
            /\ Len(last.calls) = total
            /\ \A i \in 1..Len(last.calls) :
                  /\ last.calls[i].completed = i
                  /\ last.calls[i].total = total
                  /\ PyInt(last.calls[i].success) = SucceededUpTo(i)
            /\ last.count = SucceededUpTo(Len(last.items))

\* round(a / b) for positive a and b, ties to the even neighbour as
\* Python's round does.
RoundedQuotient(a, b) ==
    LET q == a \div b
        r == a % b
    IN  IF 2 * r < b THEN q
        ELSE IF 2 * r > b THEN q + 1
        ELSE IF q % 2 = 0 THEN q ELSE q + 1

ClaimedInterval ==
    LET rounded == RoundedQuotient(efCall.original_fps, 100 * efCall.fps)
    IN  IF rounded < 1 THEN 1 ELSE rounded

\* C26: extract_frames does not fail, its interval is round(original_fps /
\* fps) and at least 1, the frames kept are those whose frame_count is a
\* multiple of that interval, frame 0 among them, and their timestamps are
\* frame_count / original_fps, strictly increasing.
C26_IntervalRoundedAtLeastOne ==
    efResult.done =>
        /\ ~efResult.raised
        /\ efResult.frame_interval = ClaimedInterval
        /\ { efResult.frames[k].frame_count : k \in 1..Len(efResult.frames) }
              = { i \in 0..(efCall.decoded - 1) : i % ClaimedInterval = 0 }
        /\ \A k \in 1..Len(efResult.frames) :
              /\ efResult.frames[k].timestamp.num = 100 * efResult.frames[k].frame_count
              /\ efResult.frames[k].timestamp.den = efCall.original_fps
              /\ k > 1 => efResult.frames[k - 1].timestamp.num
                             < efResult.frames[k].timestamp.num

IsItem(ev) == ev.e = "item"
IsSleep(ev) == ev.e = "sleep"

\* The videos annotate_single_video was called on, in the order of the calls.
ItemsBegun == SelectSeq(oTrace, IsItem)

Occurrences(seq, x) == Cardinality({ i \in 1..Len(seq) : seq[i] = x })

InSeq(seq, x) == \E i \in 1..Len(seq) : seq[i] = x

\* C22: a batch run is never left by an exception of one video: it reaches
\* the summary, having called annotate_single_video on every video, with
\* each video counted once, as a result or as failed, and a video whose
\* processing raised among the failed.
C22_EveryExceptionCaughtAndTallied ==
    BatchMode =>
        /\ oPc # "crashed"
        /\ \A p \in 1..Len(oTrace) :
              \/ (oTrace[p].e = "extract" /\ oTrace[p].outcome = "raises")
              \/ (oTrace[p].e = "infer" /\ oTrace[p].raised)
              \/ (oTrace[p].e = "mutate" /\ oTrace[p].ret = "raised")
              => InSeq(failed_episodes, oTrace[p].idx)
        /\ oPc = "summary" =>
              /\ ItemsBegun = [k \in 1..Len(video_files) |->
                                 [e |-> "item", video |-> video_files[k]]]
              /\ Len(results) + Len(failed_episodes) = Len(video_files)
              /\ \A k \in 1..Len(video_files) :
                    Occurrences(results, get_episode_index(video_files[k]).index)
                      + Occurrences(failed_episodes,
                                    get_episode_index(video_files[k]).index) = 1

\* C23: in a batch run an episode whose update_episode_full returned false
\* is among the failed episodes and not among the results.
C23_FailedUpdateListedAsFailed ==
    BatchMode =>
        \A p \in 1..Len(oTrace) :
            (oTrace[p].e = "mutate" /\ oTrace[p].ret = "false") =>
                /\ InSeq(failed_episodes, oTrace[p].idx)
                /\ ~InSeq(results, oTrace[p].idx)

\* C24: in a batch run every item but the first is entered straight after
\* a pacing sleep, whatever the item before it came to, and the run does
\* not sleep after its last item.
C24_PacingBetweenItems ==
    BatchMode =>
        /\ \A p \in 1..Len(oTrace) :
              (IsItem(oTrace[p]) /\ \E q \in 1..(p - 1) : IsItem(oTrace[q])) =>
                  IsSleep(oTrace[p - 1])
        /\ clock = PacingDelay * Len(SelectSeq(oTrace, IsSleep))
        /\ (oPc = "summary" /\ oTrace # << >>) => ~IsSleep(oTrace[Len(oTrace)])

\* The place of a file among the files of the directory, by name.
RankByName(f) == 1 + Cardinality({ g \in video_dir : NameBefore(g, f) })

\* How many videos the claim has the batch run work through.
KeptByCap ==
    IF max_episodes = NoNumber \/ max_episodes.n > Cardinality(video_dir)
    THEN Cardinality(video_dir)
    ELSE max_episodes.n

\* C27: the videos of a batch run are the files of the directory in name
\* order, the first max_episodes of them when a cap is set, without the
\* first start_index of those; annotate_single_video is called on them in
\* that order, once each, and on all of them when the summary is reached.
C27_SelectionSortedCappedSliced ==
    (BatchMode /\ oPc # "start") =>
        /\ Len(video_files) = IF KeptByCap > start_index THEN KeptByCap - start_index
                               ELSE 0
        /\ \A j \in 1..Len(video_files) :
              /\ video_files[j] \in video_dir
              /\ RankByName(video_files[j]) = start_index + j
        /\ Len(ItemsBegun) <= Len(video_files)
        /\ \A j \in 1..Len(ItemsBegun) : ItemsBegun[j].video = video_files[j]
        /\ \A i, j \in 1..Len(ItemsBegun) :
              ItemsBegun[i].video = ItemsBegun[j].video => i = j
        /\ oPc = "summary" => Len(ItemsBegun) = Len(video_files)

C27_Witness ==
    /\ BatchMode
    /\ oPc = "summary"
    /\ video_dir = {Video(0), Video(1), UnnumberedVideo}
    /\ max_episodes = [n |-> 2]
    /\ start_index = 1
    /\ video_files = << Video(1) >>
    /\ Len(ItemsBegun) = 1
    /\ results = << 1 >>

\* C28: the steps of an item come in the order extract, infer, mutate, and
\* an item is entered only when the one before it has ended; infer follows
\* an extraction that gave frames; mutate, the only step that writes the
\* stores, follows an inference whose result has no error field; in a batch
\* run an item without frames or with an error result is among the failed.
C28_ExtractInferMutateInOrder ==
    /\ \A p \in 1..Len(oTrace) :
          /\ oTrace[p].e = "extract" =>
                /\ p > 1
                /\ IsItem(oTrace[p - 1])
                /\ get_episode_index(oTrace[p - 1].video).index = oTrace[p].idx
          /\ oTrace[p].e = "infer" =>
                /\ p > 1
                /\ oTrace[p - 1].e = "extract"
                /\ oTrace[p - 1].idx = oTrace[p].idx
                /\ oTrace[p - 1].outcome = "frames"
          /\ oTrace[p].e = "mutate" =>
                /\ p > 2
                /\ oTrace[p - 1].e = "backup"
                /\ oTrace[p - 2].e = "infer"
                /\ oTrace[p - 2].idx = oTrace[p].idx
                /\ ~oTrace[p - 2].error
                /\ ~oTrace[p - 2].raised
          /\ (IsItem(oTrace[p]) /\ p > 1) =>
                /\ oTrace[p - 1].e = "backup" => p = 2
                /\ oTrace[p - 1].e = "extract" => oTrace[p - 1].outcome # "frames"
                /\ oTrace[p - 1].e = "infer" =>
                      (oTrace[p - 1].error \/ oTrace[p - 1].raised)
          /\ (BatchMode /\ \/ (oTrace[p].e = "extract" /\ oTrace[p].outcome = "empty")
                           \/ (oTrace[p].e = "infer" /\ oTrace[p].error)) =>
                /\ InSeq(failed_episodes, oTrace[p].idx)
                /\ ~InSeq(results, oTrace[p].idx)
    /\ writes <= 2 * Len(SelectSeq(oTrace, LAMBDA ev : ev.e = "mutate"))
    /\ (episodesFile # origEpisodes \/ metaFile # origMeta) =>
          \E p \in 1..Len(oTrace) : oTrace[p].e = "mutate"

C28_Witness ==
    /\ BatchMode
    /\ oPc = "summary"
    /\ Len(oTrace) = 10
    /\ oTrace[4].e = "infer"
    /\ oTrace[4].error
    /\ oTrace[5].e = "sleep"
    /\ oTrace[10].e = "mutate"
    /\ failed_episodes = << 0 >>
    /\ results = << 1 >>
    /\ writes = 2

\* C29: the task context of the prompt is that of the episode whenever the
\* Episode record has tasks, and the default one only when it has none.
C29_TaskContextFromEpisode ==
    \A p \in 1..Len(oTrace) :
        oTrace[p].e = "infer" =>
            (Get(oTrace[p].info, "tasks", << >>) # << >>
                <=> oTrace[p].context # UnknownTask)

====
